---- MODULE Spec2Model ----
(***************************************************************************)
(* Model of the adaptive Morse decoder (core/src/interpret.rs) together    *)
(* with the timing generator (core/src/timing.rs) and the pattern table    *)
(* (core/src/patterns.rs).                                                 *)
(*                                                                         *)
(* Number representation.  The program computes in f32.  The model uses    *)
(* fixed point with six decimals: a duration is an integer number of       *)
(* microseconds, a cost or a confidence an integer number of millionths,   *)
(* a logarithm an integer number of micro-nats.  A product by a decimal    *)
(* literal of the source is the matching integer ratio (x * 0.1 is         *)
(* x \div 10).  Characters are one-character strings, a text is a          *)
(* sequence of characters.                                                 *)
(***************************************************************************)
EXTENDS Integers, Sequences, FiniteSets, TLC

VARIABLES
    signals,            \* the input: sequence of [on, seconds]
    max_output_length,  \* MorseInterpretParams.max_output_length
    lm,                 \* which trigram table the build embedded
    overflow_checks,    \* build profile: TRUE = arithmetic overflow panics
    pc,                 \* position of the call: start, loop, finalize, done, panic
    idx,                \* index of the next signal of the loop
    timings,            \* MorseTimings computed by from_signals
    decoder,            \* BeamSearchDecoder
    expanded,           \* new_hypotheses.len() of the last signal, before prune_beam
    result,             \* Result<MorseInterpretResult, String>
    TRIE,               \* static TRIE: OnceLock<MorseTrie> of get_morse_trie
    LM,                 \* static LM: OnceLock<LanguageModel> of get_language_model
    threads,            \* the calls of concurrent threads, by thread
    build,              \* MorseTrie::build in progress, and a walk through its trie
    generator           \* one call of generate_morse_timing: its arguments and result

\* The state of one call of morse_interpret.
call_vars == <<signals, max_output_length, lm, overflow_checks, pc, idx, timings,
               decoder, expanded, result>>

vars == <<signals, max_output_length, lm, overflow_checks, pc, idx, timings,
          decoder, expanded, result, TRIE, LM, threads, build, generator>>

----------------------------------------------------------------------------
(* Fixed-point helpers *)

Abs(x) == IF x < 0 THEN -x ELSE x

Min(a, b) == IF a <= b THEN a ELSE b

Max(a, b) == IF a >= b THEN a ELSE b

\* a * b / 10^6 for fixed-point values, computed without exceeding 32 bits.
MulFP(a, b) ==
    LET sa == IF a < 0 THEN -1 ELSE 1
        sb == IF b < 0 THEN -1 ELSE 1
        x  == Abs(a)
        y  == Abs(b)
        xh == x \div 1000
        xl == x % 1000
        yh == y \div 1000
        yl == y % 1000
        m  == xh * yl + xl * yh
    IN  sa * sb * (xh * yh + m \div 1000
                   + ((m % 1000) * 1000 + xl * yl) \div 1000000)

\* a * b / 10^9 for 0 <= a, b < 10^9 (values with nine decimals), to within
\* two units of the last decimal.
MulNano(a, b) ==
    LET a2 == a \div 1000000
        a1 == (a \div 1000) % 1000
        a0 == a % 1000
        b2 == b \div 1000000
        b1 == (b \div 1000) % 1000
        b0 == b % 1000
    IN  a2 * b2 * 1000 + a2 * b1 + a1 * b2
        + (a2 * b0 + a1 * b1 + a0 * b2) \div 1000
        + (a1 * b0 + a0 * b1) \div 1000000

\* floor(a * 10^digits / b) for 0 <= a < b, by long division.
RECURSIVE DivFP(_, _, _)
DivFP(a, b, digits) ==
    IF digits = 0 THEN 0
    ELSE LET q == (a * 10) \div b
             r == (a * 10) % b
         IN  q * (10 ^ (digits - 1)) + DivFP(r, b, digits - 1)

\* The largest k with 2^k <= x, for x >= 1.
RECURSIVE Log2Floor(_)
Log2Floor(x) == IF x < 2 THEN 0 ELSE 1 + Log2Floor(x \div 2)

\* ln(n) in micro-nats for an integer n >= 1:
\* ln n = k ln 2 + 2 atanh(y), y = (n - 2^k) / (n + 2^k), 0 <= y < 1/3.
\* The series is summed with nine decimals and rounded to six.
\* The terms y^d / d + y^(d+2) / (d+2) + ... + y^15 / 15 of atanh(y),
\* power being y^d and y2 being y^2.
RECURSIVE AtanhSeries(_, _, _)
AtanhSeries(power, y2, d) ==
    IF d > 15 THEN 0
    ELSE power \div d + AtanhSeries(MulNano(power, y2), y2, d + 2)

LnFromSeries(k, y) ==
    k * 693147 + (k * 181 + 2 * AtanhSeries(y, MulNano(y, y), 1) + 500) \div 1000

LnFromExponent(n, p, k) == LnFromSeries(k, DivFP(n - p, n + p, 9))

LnFromLog2(n, k) == LnFromExponent(n, 2 ^ k, k)

LnInt(n) == LnFromLog2(n, Log2Floor(n))

\* f32::ln of a duration: micro-nats of ln(seconds), the duration in microseconds.
\* Callers pass duration.max(1e-6), which is at least one microsecond.
Ln(us) == LnInt(Max(us, 1)) - 13815511

----------------------------------------------------------------------------
(* patterns.rs: the pattern table *)

DOT == "Dot"

DASH == "Dash"

GAP == "Gap"

UpperLetters ==
    <<"A", "B", "C", "D", "E", "F", "G", "H", "I", "J", "K", "L", "M",
      "N", "O", "P", "Q", "R", "S", "T", "U", "V", "W", "X", "Y", "Z">>

LowerLetters ==
    <<"a", "b", "c", "d", "e", "f", "g", "h", "i", "j", "k", "l", "m",
      "n", "o", "p", "q", "r", "s", "t", "u", "v", "w", "x", "y", "z">>

Digits == <<"0", "1", "2", "3", "4", "5", "6", "7", "8", "9">>

SeqRange(s) == {s[i] : i \in 1..Len(s)}

\* char::is_alphabetic on the bytes that have a pattern.
is_alphabetic(ch) == ch \in SeqRange(UpperLetters) \cup SeqRange(LowerLetters)

LetterPattern ==
    [ A |-> <<DOT, DASH>>,             B |-> <<DASH, DOT, DOT, DOT>>,
      C |-> <<DASH, DOT, DASH, DOT>>,  D |-> <<DASH, DOT, DOT>>,
      E |-> <<DOT>>,                   F |-> <<DOT, DOT, DASH, DOT>>,
      G |-> <<DASH, DASH, DOT>>,       H |-> <<DOT, DOT, DOT, DOT>>,
      I |-> <<DOT, DOT>>,              J |-> <<DOT, DASH, DASH, DASH>>,
      K |-> <<DASH, DOT, DASH>>,       L |-> <<DOT, DASH, DOT, DOT>>,
      M |-> <<DASH, DASH>>,            N |-> <<DASH, DOT>>,
      O |-> <<DASH, DASH, DASH>>,      P |-> <<DOT, DASH, DASH, DOT>>,
      Q |-> <<DASH, DASH, DOT, DASH>>, R |-> <<DOT, DASH, DOT>>,
      S |-> <<DOT, DOT, DOT>>,         T |-> <<DASH>>,
      U |-> <<DOT, DOT, DASH>>,        V |-> <<DOT, DOT, DOT, DASH>>,
      W |-> <<DOT, DASH, DASH>>,       X |-> <<DASH, DOT, DOT, DASH>>,
      Y |-> <<DASH, DOT, DASH, DASH>>, Z |-> <<DASH, DASH, DOT, DOT>> ]

\* The lowercase entries of MORSE_PATTERNS share the uppercase patterns.
ToUpper(ch) ==
    IF ch \in SeqRange(LowerLetters)
    THEN UpperLetters[CHOOSE i \in 1..26 : LowerLetters[i] = ch]
    ELSE ch

\* MORSE_PATTERNS[ch]; None is the empty sequence (no pattern is empty).
get_morse_pattern(ch) ==
    CASE is_alphabetic(ch) -> LetterPattern[ToUpper(ch)]
      [] ch = "0"  -> <<DASH, DASH, DASH, DASH, DASH>>
      [] ch = "1"  -> <<DOT, DASH, DASH, DASH, DASH>>
      [] ch = "2"  -> <<DOT, DOT, DASH, DASH, DASH>>
      [] ch = "3"  -> <<DOT, DOT, DOT, DASH, DASH>>
      [] ch = "4"  -> <<DOT, DOT, DOT, DOT, DASH>>
      [] ch = "5"  -> <<DOT, DOT, DOT, DOT, DOT>>
      [] ch = "6"  -> <<DASH, DOT, DOT, DOT, DOT>>
      [] ch = "7"  -> <<DASH, DASH, DOT, DOT, DOT>>
      [] ch = "8"  -> <<DASH, DASH, DASH, DOT, DOT>>
      [] ch = "9"  -> <<DASH, DASH, DASH, DASH, DOT>>
      [] ch = "."  -> <<DOT, DASH, DOT, DASH, DOT, DASH>>
      [] ch = ","  -> <<DASH, DASH, DOT, DOT, DASH, DASH>>
      [] ch = "?"  -> <<DOT, DOT, DASH, DASH, DOT, DOT>>
      [] ch = "'"  -> <<DOT, DASH, DASH, DASH, DASH, DOT>>
      [] ch = "!"  -> <<DASH, DOT, DASH, DOT, DASH, DASH>>
      [] ch = "/"  -> <<DASH, DOT, DOT, DASH, DOT>>
      [] ch = "("  -> <<DASH, DOT, DASH, DASH, DOT>>
      [] ch = ")"  -> <<DASH, DOT, DASH, DASH, DOT, DASH>>
      [] ch = "&"  -> <<DOT, DASH, DOT, DOT, DOT>>
      [] ch = ":"  -> <<DASH, DASH, DASH, DOT, DOT, DOT>>
      [] ch = ";"  -> <<DASH, DOT, DASH, DOT, DASH, DOT>>
      [] ch = "="  -> <<DASH, DOT, DOT, DOT, DASH>>
      [] ch = "+"  -> <<DOT, DASH, DOT, DASH, DOT>>
      [] ch = "-"  -> <<DASH, DOT, DOT, DOT, DOT, DASH>>
      [] ch = "_"  -> <<DOT, DOT, DASH, DASH, DOT, DASH>>
      [] ch = "\"" -> <<DOT, DASH, DOT, DOT, DASH, DOT>>
      [] ch = "$"  -> <<DOT, DOT, DOT, DASH, DOT, DOT, DASH>>
      [] ch = "@"  -> <<DOT, DASH, DASH, DOT, DASH, DOT>>
      [] OTHER     -> <<>>

\* The bytes 0..=255 that have a pattern, in ascending byte order.
PatternBytes ==
    <<"!", "\"", "$", "&", "'", "(", ")", "+", ",", "-", ".", "/">>
    \o Digits \o <<":", ";", "=", "?", "@">> \o UpperLetters \o <<"_">>
    \o LowerLetters

----------------------------------------------------------------------------
(* interpret.rs: the Morse trie.  Node i of the arena is nodes[i + 1]. *)

NoChar == ""

TrieNode_new == [next_dot |-> 0, next_dash |-> 0, terminal |-> NoChar]

RECURSIVE add_pattern_from(_, _, _, _)
add_pattern_from(nodes, current, pattern, terminal) ==
    IF pattern = <<>>
    THEN [nodes EXCEPT ![current + 1].terminal = terminal]
    ELSE LET element == Head(pattern)
             rest    == Tail(pattern)
             field   == IF element = DOT THEN "next_dot" ELSE "next_dash"
         IN  IF element = GAP
             THEN add_pattern_from(nodes, current, rest, terminal)
             ELSE IF nodes[current + 1][field] = 0
                  THEN LET pushed  == Append(nodes, TrieNode_new)
                           new_idx == Len(pushed) - 1
                           linked  == [pushed EXCEPT ![current + 1][field] = new_idx]
                       IN  add_pattern_from(linked, new_idx, rest, terminal)
                  ELSE add_pattern_from(nodes, nodes[current + 1][field], rest, terminal)

add_pattern(nodes, pattern, terminal) == add_pattern_from(nodes, 0, pattern, terminal)

RECURSIVE add_all(_, _)
add_all(nodes, chars) ==
    IF chars = <<>> THEN nodes
    ELSE LET added == add_pattern(nodes, get_morse_pattern(Head(chars)), Head(chars))
         IN  IF Len(added) > 0 THEN add_all(added, Tail(chars)) ELSE added

\* MorseTrie::build: first the non-alphabetic bytes, then 'A'..='Z'.
MorseTrie_build ==
    LET first_pass == SelectSeq(PatternBytes, LAMBDA ch : ~is_alphabetic(ch))
    IN  add_all(add_all(<<TrieNode_new>>, first_pass), UpperLetters)

\* get_morse_trie(): the process-wide trie.
get_morse_trie == MorseTrie_build

ROOT == 0

\* MorseTrie::transition; None is 0 (no transition leads to the root).
trie_transition(nodes, node_idx, element) ==
    IF node_idx >= Len(nodes) THEN 0
    ELSE CASE element = DOT  -> nodes[node_idx + 1].next_dot
           [] element = DASH -> nodes[node_idx + 1].next_dash
           [] OTHER          -> 0

transition(node_idx, element) == trie_transition(get_morse_trie, node_idx, element)

\* MorseTrie::get_terminal; None is NoChar.
trie_terminal(nodes, node_idx) ==
    IF node_idx >= Len(nodes) THEN NoChar ELSE nodes[node_idx + 1].terminal

get_terminal(node_idx) == trie_terminal(get_morse_trie, node_idx)

----------------------------------------------------------------------------
(* interpret.rs: constants *)

DEFAULT_BEAM_SIZE == 64

DEFAULT_SPACE_PENALTY == 300000

DEFAULT_LM_WEIGHT == 2

DEFAULT_LATE_INTRA_PENALTY == 500000

DEFAULT_LONG_INTER_PENALTY == 600000

DEFAULT_UNKNOWN_TRIGRAM_COST == 8000000

LATE_INTRA_THRESHOLD_MULTIPLIER == 2

LONG_INTER_THRESHOLD_MULTIPLIER == 4

LONG_WORD_LENGTH_THRESHOLD == 3

DEFAULT_TIMING_SIGMA == 500000

DEFAULT_TIMING_TRACKER_ALPHA == 100000

NOISE_THRESHOLD == 10000

PRIOR_WPM == 15

\* (2.0 * PI).sqrt()
SQRT_2PI == 2506628

\* The largest value of the u16 fields (pending_word_len, trie indices).
U16_MAX == 65535

\* 3.0f32.ln()
LN_3 == 1098612

----------------------------------------------------------------------------
(* Sorting.  sort_by is a stable sort; keys[i] is the number s[i] is compared *)
(* by.                                                                       *)

StableSortBy(s, keys) ==
    LET n    == Len(s)
        rank == [i \in 1..n |->
                    Cardinality({j \in 1..n :
                        \/ keys[j] < keys[i]
                        \/ (keys[j] = keys[i] /\ j < i)}) + 1]
        pos  == [k \in 1..n |-> CHOOSE i \in 1..n : rank[i] = k]
    IN  [k \in 1..n |-> s[pos[k]]]

SortAscending(values) == StableSortBy(values, values)

RECURSIVE Flatten(_)
Flatten(ss) == IF ss = <<>> THEN <<>> ELSE Head(ss) \o Flatten(Tail(ss))

\* TimingStats::new(values).median, None (an empty input) excluded by the caller.
TimingStats_median(values) ==
    LET sorted == SortAscending(values)
        len    == Len(sorted)
    IN  IF len % 2 = 0
        THEN (sorted[len \div 2] + sorted[len \div 2 + 1]) \div 2
        ELSE sorted[len \div 2 + 1]

----------------------------------------------------------------------------
(* interpret.rs, phase 1: the probabilistic timing model *)

\* -ln_pdf_lognormal(d, mu, sigma): the cost the callers add.
\* (ln_x - mu) / sigma, with delta = ln_x - mu and s = sigma in thousandths.
z_score(delta, s) == (delta \div s) * 1000 + ((delta % s) * 1000) \div s

\* 0.5 * z * z
half_square(z) == MulFP(z, z) \div 2

neg_ln_pdf_of_ln(ln_x, mu, sigma) ==
    half_square(z_score(ln_x - mu, sigma \div 1000))
        + ln_x + Ln(MulFP(sigma, SQRT_2PI))

neg_ln_pdf_lognormal(d, mu, sigma) == neg_ln_pdf_of_ln(Ln(d), mu, sigma)

TimingTracker_new(initial_t) ==
    [ln_t |-> Ln(initial_t), alpha |-> DEFAULT_TIMING_TRACKER_ALPHA]

\* target_ln_t with every duration taken for a dot.
target_ln_t_as_dot(tracker, ln_duration) == ln_duration

\* TimingTracker::update_from_on_signal
\* target_ln_t of update_from_on_signal: the duration is taken for a dot
\* or for a dash, whichever is closer in log space.
target_ln_t(tracker, ln_duration) ==
    IF Abs(ln_duration - tracker.ln_t) < Abs(ln_duration - (tracker.ln_t + LN_3))
    THEN ln_duration
    ELSE ln_duration - LN_3

\* update_from_on_signal with the sample taken over as the estimate.
update_from_on_signal_unblended(tracker, duration) ==
    [tracker EXCEPT !.ln_t = target_ln_t(tracker, Ln(duration))]

\* TimingTracker::update_from_on_signal
update_from_on_signal(tracker, duration) ==
    [tracker EXCEPT !.ln_t = MulFP(1000000 - tracker.alpha, tracker.ln_t)
                             + MulFP(tracker.alpha,
                                     target_ln_t(tracker, Ln(duration)))]

\* seconds > tracker.get_t() * multiplier, compared in log space
\* (get_t is exp(ln_t), and exp is increasing).
longer_than_units(seconds, tracker, multiplier) ==
    Ln(seconds) > tracker.ln_t + LnInt(multiplier)

from_tracker_and_clusters(tracker, gap_clusters) ==
    [ln_t |-> tracker.ln_t, sigma |-> DEFAULT_TIMING_SIGMA,
     gap_clusters |-> gap_clusters]

element_costs(model, duration) ==
    <<  <<DOT,  neg_ln_pdf_lognormal(duration, model.ln_t, model.sigma)>>,
        <<DASH, neg_ln_pdf_lognormal(duration, model.ln_t + LN_3, model.sigma)>> >>

INTRA == "IntraCharacter"

INTER == "InterCharacter"

WORD == "Word"

gap_costs(model, duration) ==
    LET t1 == model.gap_clusters.intra_to_inter_threshold
        t2 == model.gap_clusters.inter_to_word_threshold
        intra_cost ==
            IF duration <= t1
            THEN Abs(duration - t1 \div 2) \div 10
            ELSE Abs(duration - t1) \div 2
        inter_cost ==
            IF duration > t1 /\ duration <= t2
            THEN Abs(duration - (t1 + t2) \div 2) \div 10
            ELSE (IF duration <= t1 THEN t1 - duration ELSE duration - t2) \div 2
        word_cost ==
            IF duration > t2
            THEN Abs(duration - (t2 * 6) \div 5) \div 10
            ELSE (t2 - duration) \div 2
    IN  << <<INTRA, intra_cost>>, <<INTER, inter_cost>>, <<WORD, word_cost>> >>

\* "if costs[0].1 <= costs[1].1 { costs[0].0 } else { costs[1].0 }"
first_if_not_above(costs) ==
    IF costs[1][2] <= costs[2][2] THEN costs[1][1] ELSE costs[2][1]

classify_element_min_cost(model, duration) ==
    first_if_not_above(element_costs(model, duration))

classify_gap_min_cost(model, duration) ==
    LET costs == gap_costs(model, duration)
        after2 == IF costs[2][2] < costs[1][2] THEN costs[2] ELSE costs[1]
        after3 == IF costs[3][2] < after2[2] THEN costs[3] ELSE after2
    IN  after3[1]

\* The cost of the entry of a cost table with the given kind
\* (the "for (kind, cost) in costs { if kind == wanted ... break }" loops).
cost_of(costs, kind) ==
    costs[CHOOSE i \in 1..Len(costs) :
            /\ costs[i][1] = kind
            /\ \A j \in 1..(i - 1) : costs[j][1] # kind][2]

----------------------------------------------------------------------------
(* interpret.rs, phase 3: language model *)

\* The trigram tables a build may embed.  The table is generated at build
\* time from english_3grams.csv (costs min(4.0, 0.5 ln(ref / freq)), at most
\* 2000 entries); the model leaves its content open between these profiles:
\*   empty     no trigram is in the table
\*   frequent  every trigram looked up is in the table with cost 0.0
\*   capped    every trigram looked up is in the table with cost 4.0
\*   letters   exactly the all-letter trigrams are in the table, cost 2.0
LMProfiles == {"empty", "frequent", "capped", "letters"}

english_trigram_cost(profile, trigram) ==
    CASE profile = "frequent" -> 0
      [] profile = "capped"   -> 4000000
      [] profile = "letters"  ->
            IF \A i \in 1..3 : trigram[i] \in SeqRange(UpperLetters)
            THEN 2000000
            ELSE DEFAULT_UNKNOWN_TRIGRAM_COST
      [] OTHER                -> DEFAULT_UNKNOWN_TRIGRAM_COST

\* LanguageModel::get_cost on the model built by LanguageModel::new: the
\* morse-specific trigrams are inserted last and override the table.
get_cost(profile, context, next_char) ==
    LET trigram == <<context[1], context[2], next_char>>
    IN  CASE trigram = <<"S", "O", "S">> -> 500000
          [] trigram = <<"C", "Q", "C">> -> 800000
          [] trigram = <<"C", "Q", " ">> -> 300000
          [] trigram = <<"Q", "S", "O">> -> 1000000
          [] OTHER -> english_trigram_cost(profile, trigram)

----------------------------------------------------------------------------
(* interpret.rs: the process-wide singletons.  A OnceLock is its state      *)
(* (uninit, running while one thread runs the initializer, complete), the   *)
(* value it holds once complete, and the number of times an initializer has *)
(* written it.                                                              *)

OnceLock_new(none) == [state |-> "uninit", value |-> none, builds |-> 0]

\* The cell after an initializer has stored its value.
initialized(cell, value) ==
    [state |-> "complete", value |-> value, builds |-> cell.builds + 1]

\* OnceLock::get_or_init with no other thread inside it: the initializer runs
\* unless the cell is complete.
get_or_init(cell, value) ==
    IF cell.state = "complete" THEN cell ELSE initialized(cell, value)

----------------------------------------------------------------------------
(* interpret.rs, phase 3: hypotheses *)

Hypothesis_new ==
    [trie_node |-> ROOT, lm_context |-> <<" ", " ">>, pending_word_len |-> 0,
     cost |-> 0, text |-> <<>>]

\* Hypothesis::add_character.  pending_word_len is a u16: the increment wraps
\* here; a build with overflow checks panics instead (add_overflows).
add_character(hyp, ch, lm_cost) ==
    [trie_node        |-> ROOT,
     lm_context       |-> <<hyp.lm_context[2], ch>>,
     pending_word_len |-> IF ch = " " THEN 0
                          ELSE (hyp.pending_word_len + 1) % (U16_MAX + 1),
     cost             |-> hyp.cost + lm_cost,
     text             |-> Append(hyp.text, ch)]

\* "self.pending_word_len += 1" overflows the u16.
add_overflows(hyp, ch) == ch # " " /\ hyp.pending_word_len + 1 > U16_MAX

fork(hyp) == hyp

----------------------------------------------------------------------------
(* interpret.rs: MorseTimings *)

\* 1.2 / PRIOR_WPM as f32
expected_dot_duration == 1200000 \div PRIOR_WPM

expected_dash_duration == expected_dot_duration * 3

\* The "biggest gap between consecutive durations" loop of find_dot_duration,
\* from index i on (1-based) with the loop's max_gap and best_split.
RECURSIVE best_split_scan(_, _, _, _)
best_split_scan(sorted_durations, i, max_gap, best_split) ==
    IF i > Len(sorted_durations) - 1 THEN best_split
    ELSE LET gap == sorted_durations[i + 1] - sorted_durations[i]
             potential_split == (sorted_durations[i] + sorted_durations[i + 1]) \div 2
         IN  IF gap > max_gap
             THEN best_split_scan(sorted_durations, i + 1, gap,
                    IF /\ potential_split > expected_dot_duration \div 2
                       /\ potential_split < (expected_dash_duration * 3) \div 2
                    THEN potential_split ELSE best_split)
             ELSE best_split_scan(sorted_durations, i + 1, max_gap, best_split)

find_dot_duration(on_durations) ==
    LET is_dot(d) == Abs(d - expected_dot_duration) <= Abs(d - expected_dash_duration)
        first_dots   == SelectSeq(on_durations, is_dot)
        first_dashes == SelectSeq(on_durations, LAMBDA d : ~is_dot(d))
        best_split   == best_split_scan(SortAscending(on_durations), 1, 0,
                            (expected_dot_duration + expected_dash_duration) \div 2)
        dot_candidates ==
            IF first_dots # <<>> /\ first_dashes # <<>>
            THEN SelectSeq(on_durations, LAMBDA d : d <= best_split)
            ELSE first_dots
    IN  IF dot_candidates # <<>>
        THEN TimingStats_median(dot_candidates)
        ELSE expected_dot_duration

\* The thresholds at the breakpoints (indices into sorted_gaps, ascending).
thresholds_at(sorted_gaps, breakpoints, dot_duration) ==
    LET t1 == IF breakpoints # <<>>
              THEN (sorted_gaps[breakpoints[1]]
                    + sorted_gaps[breakpoints[1] + 1]) \div 2
              ELSE (dot_duration * 3) \div 2
    IN  [intra_to_inter_threshold |-> t1,
         inter_to_word_threshold  |->
             IF Len(breakpoints) >= 2
             THEN (sorted_gaps[breakpoints[2]]
                   + sorted_gaps[breakpoints[2] + 1]) \div 2
             ELSE (t1 * 5) \div 2]

\* The indices of the first two entries of gap_differences sorted by size,
\* largest first (a stable sort).
largest_two(gap_differences) ==
    SubSeq([k \in 1..Len(gap_differences) |->
               StableSortBy(gap_differences,
                   [i \in 1..Len(gap_differences) |-> -gap_differences[i][1]])[k][2]],
           1, Min(2, Len(gap_differences)))

\* cluster_gap_durations once the gaps are sorted.
cluster_sorted_gaps(sorted_gaps, dot_duration) ==
    IF Len(sorted_gaps) < 3
    THEN [intra_to_inter_threshold |->
              (sorted_gaps[Len(sorted_gaps) \div 2 + 1] * 7) \div 10,
          inter_to_word_threshold  |->
              (sorted_gaps[Len(sorted_gaps) \div 2 + 1] * 3) \div 2]
    ELSE thresholds_at(sorted_gaps,
             SortAscending(largest_two(
                 [i \in 1..(Len(sorted_gaps) - 1) |->
                     <<sorted_gaps[i + 1] - sorted_gaps[i], i>>])),
             dot_duration)

cluster_gap_durations(off_durations, dot_duration) ==
    IF off_durations = <<>>
    THEN [intra_to_inter_threshold |-> dot_duration * 2,
          inter_to_word_threshold  |-> dot_duration * 5]
    ELSE cluster_sorted_gaps(SortAscending(off_durations), dot_duration)

NoTimings ==
    [dot_duration |-> 0,
     gap_clusters |-> [intra_to_inter_threshold |-> 0, inter_to_word_threshold |-> 0]]

durations_of(sigs) == [i \in 1..Len(sigs) |-> sigs[i].seconds]

\* from_signals once the dot duration is found.
timings_with_dot(off_durations, dot_duration) ==
    [ok |-> TRUE, err |-> "",
     value |-> [dot_duration |-> dot_duration,
                gap_clusters |-> cluster_gap_durations(off_durations, dot_duration)]]

\* from_signals once the durations are separated and filtered.
timings_of(on_durations, off_durations) ==
    IF on_durations = <<>>
    THEN [ok |-> FALSE, err |-> "No valid on signals found", value |-> NoTimings]
    ELSE timings_with_dot(off_durations, find_dot_duration(on_durations))

\* from_signals with the ON filter reduced to "s.on".
from_signals_on_unfiltered(sigs) ==
    timings_of(
        durations_of(SelectSeq(sigs, LAMBDA s : s.on)),
        durations_of(SelectSeq(sigs, LAMBDA s : ~s.on /\ s.seconds >= NOISE_THRESHOLD)))

\* MorseTimings::from_signals: [ok, err, value].
from_signals(sigs) ==
    timings_of(
        durations_of(SelectSeq(sigs, LAMBDA s : s.on /\ s.seconds >= NOISE_THRESHOLD)),
        durations_of(SelectSeq(sigs, LAMBDA s : ~s.on /\ s.seconds >= NOISE_THRESHOLD)))

----------------------------------------------------------------------------
(* interpret.rs, phase 3: the beam search decoder *)

BeamSearchParams_default ==
    [beam_size          |-> DEFAULT_BEAM_SIZE,
     space_penalty      |-> DEFAULT_SPACE_PENALTY,
     lm_weight          |-> DEFAULT_LM_WEIGHT,
     late_intra_penalty |-> DEFAULT_LATE_INTRA_PENALTY,
     long_inter_penalty |-> DEFAULT_LONG_INTER_PENALTY]

\* BeamSearchDecoder::new; lm is the table get_language_model() returns.
BeamSearchDecoder_new(tm, params, profile) ==
    LET timing_tracker == TimingTracker_new(tm.dot_duration)
    IN  [hypotheses     |-> <<Hypothesis_new>>,
         params         |-> params,
         lm             |-> profile,
         timing_tracker |-> timing_tracker,
         timing_model   |-> from_tracker_and_clusters(timing_tracker, tm.gap_clusters)]

NoDecoder ==
    [hypotheses     |-> <<>>,
     params         |-> BeamSearchParams_default,
     lm             |-> "empty",
     timing_tracker |-> [ln_t |-> 0, alpha |-> DEFAULT_TIMING_TRACKER_ALPHA],
     timing_model   |-> [ln_t |-> 0, sigma |-> DEFAULT_TIMING_SIGMA,
                         gap_clusters |-> NoTimings.gap_clusters]]

\* The decoder with its tracker replaced and the timing model rebuilt from it.
with_tracker(dec, tracker) ==
    [dec EXCEPT !.timing_tracker = tracker,
                !.timing_model =
                    from_tracker_and_clusters(tracker, dec.timing_model.gap_clusters)]

\* update_timing without the "if signal.on": the tracker follows every signal.
update_timing_every_signal(dec, signal) ==
    with_tracker(dec, update_from_on_signal(dec.timing_tracker, signal.seconds))

\* BeamSearchDecoder::update_timing
update_timing(dec, signal) ==
    IF signal.on
    THEN with_tracker(dec, update_from_on_signal(dec.timing_tracker, signal.seconds))
    ELSE dec

\* The loop body of process_on_signal with a failed transition leaving the
\* hypothesis in the beam.
on_successor_kept(hyp, next_node, cost) ==
    IF next_node # 0
    THEN << [fork(hyp) EXCEPT !.trie_node = next_node, !.cost = hyp.cost + cost] >>
    ELSE << fork(hyp) >>

\* The loop body of process_on_signal once the transition is looked up.
on_successor(hyp, next_node, cost) ==
    IF next_node # 0
    THEN << [fork(hyp) EXCEPT !.trie_node = next_node, !.cost = hyp.cost + cost] >>
    ELSE <<>>

\* The loop of process_on_signal for the classified element and its cost.
on_successors(hyps, element, cost) ==
    Flatten([i \in 1..Len(hyps) |->
        on_successor(hyps[i], transition(hyps[i].trie_node, element), cost)])

on_with_element(dec, signal, element) ==
    on_successors(dec.hypotheses, element,
        cost_of(element_costs(dec.timing_model, signal.seconds), element))

\* new_hypotheses of process_on_signal, before prune_beam.
on_new_hypotheses(dec, signal) ==
    on_with_element(dec, signal,
        classify_element_min_cost(dec.timing_model, signal.seconds))

\* "new_hyp.cost += cost"
with_cost(hyp, cost) == [hyp EXCEPT !.cost = hyp.cost + cost]

\* The fork of hyp with the character of its trie node added at its
\* language-model cost.
with_character(dec, hyp, ch) ==
    add_character(fork(hyp), ch,
                  get_cost(dec.lm, hyp.lm_context, ch) * dec.params.lm_weight)

\* A space added to a completed hypothesis at its language-model cost plus
\* extra.
with_space(dec, hyp, extra) ==
    add_character(hyp, " ",
                  get_cost(dec.lm, hyp.lm_context, " ") * dec.params.lm_weight + extra)

\* "if signal.seconds > self.timing_tracker.get_t() * multiplier { penalty }"
gap_penalty(dec, signal, multiplier, penalty) ==
    IF longer_than_units(signal.seconds, dec.timing_tracker, multiplier)
    THEN penalty ELSE 0

\* The IntraCharacter arm of process_off_signal.
intra_successors(dec, hyp, signal, cost) ==
    << with_cost(with_cost(fork(hyp), cost),
                 gap_penalty(dec, signal, LATE_INTRA_THRESHOLD_MULTIPLIER,
                             dec.params.late_intra_penalty)) >>

\* The InterCharacter arm: complete the character, no space.
inter_successors(dec, hyp, ch, cost) ==
    IF ch # NoChar THEN << with_cost(with_character(dec, hyp, ch), cost) >> ELSE <<>>

\* The space branch with "pending_word_len >= LONG_WORD_LENGTH_THRESHOLD".
space_successors_at_threshold(dec, hyp, ch, cost) ==
    IF hyp.pending_word_len >= LONG_WORD_LENGTH_THRESHOLD /\ ch # NoChar
    THEN << with_cost(with_space(dec, with_character(dec, hyp, ch),
                                 dec.params.space_penalty), cost) >>
    ELSE <<>>

\* The InterCharacter arm: "also consider adding space if word is getting long".
space_successors(dec, hyp, ch, cost) ==
    IF hyp.pending_word_len > LONG_WORD_LENGTH_THRESHOLD /\ ch # NoChar
    THEN << with_cost(with_space(dec, with_character(dec, hyp, ch),
                                 dec.params.space_penalty), cost) >>
    ELSE <<>>

\* The Word arm with the space added also where no character completes.
word_successors_always_spaced(dec, hyp, ch, cost) ==
    IF ch # NoChar
    THEN << with_cost(with_space(dec, with_character(dec, hyp, ch), 0), cost) >>
    ELSE << with_cost(with_space(dec, fork(hyp), 0), cost) >>

\* The Word arm: complete the character and add a space.
word_successors(dec, hyp, ch, cost) ==
    IF ch # NoChar
    THEN << with_cost(with_space(dec, with_character(dec, hyp, ch), 0), cost) >>
    ELSE <<>>

\* The continue branch taken only where no character completes.
continue_successors_unless_terminal(dec, hyp, signal, gap_type, cost) ==
    IF gap_type = INTER /\ get_terminal(hyp.trie_node) = NoChar
    THEN << with_cost(with_cost(fork(hyp), cost),
                      gap_penalty(dec, signal, LONG_INTER_THRESHOLD_MULTIPLIER,
                                  dec.params.long_inter_penalty)) >>
    ELSE <<>>

\* "if matches!(gap_type, GapType::InterCharacter)": continue without
\* completing, at the IntraCharacter cost.
continue_successors(dec, hyp, signal, gap_type, cost) ==
    IF gap_type = INTER
    THEN << with_cost(with_cost(fork(hyp), cost),
                      gap_penalty(dec, signal, LONG_INTER_THRESHOLD_MULTIPLIER,
                                  dec.params.long_inter_penalty)) >>
    ELSE <<>>

\* The body of the loop of process_off_signal for the terminal ch of the
\* hypothesis and the cost table of the gap.
off_branches(dec, hyp, signal, gap_type, ch, costs) ==
    (CASE gap_type = INTRA ->
            intra_successors(dec, hyp, signal, cost_of(costs, gap_type))
       [] gap_type = INTER ->
            inter_successors(dec, hyp, ch, cost_of(costs, gap_type))
            \o space_successors(dec, hyp, ch, cost_of(costs, gap_type))
       [] OTHER ->
            word_successors(dec, hyp, ch, cost_of(costs, gap_type)))
    \o continue_successors(dec, hyp, signal, gap_type, cost_of(costs, INTRA))

\* The hypotheses one hypothesis contributes on an OFF signal, in push order.
off_successors(dec, hyp, signal, gap_type) ==
    off_branches(dec, hyp, signal, gap_type, get_terminal(hyp.trie_node),
                 gap_costs(dec.timing_model, signal.seconds))

\* new_hypotheses of process_off_signal, before prune_beam.
off_new_hypotheses(dec, signal) ==
    LET gap_type == classify_gap_min_cost(dec.timing_model, signal.seconds)
    IN  Flatten([i \in 1..Len(dec.hypotheses) |->
                    off_successors(dec, dec.hypotheses[i], signal, gap_type)])

\* process_off_signal reaches "pending_word_len += 1" at the u16 maximum.
off_overflows(dec, signal) ==
    /\ classify_gap_min_cost(dec.timing_model, signal.seconds) # INTRA
    /\ \E i \in 1..Len(dec.hypotheses) :
          /\ get_terminal(dec.hypotheses[i].trie_node) # NoChar
          /\ add_overflows(dec.hypotheses[i], get_terminal(dec.hypotheses[i].trie_node))

\* prune_beam with the truncate left out.
prune_beam_untruncated(hyps, beam_size) ==
    IF Len(hyps) <= beam_size THEN hyps
    ELSE StableSortBy(hyps, [i \in 1..Len(hyps) |-> hyps[i].cost])

\* BeamSearchDecoder::prune_beam on a hypothesis list.
prune_beam(hyps, beam_size) ==
    IF Len(hyps) <= beam_size THEN hyps
    ELSE SubSeq(StableSortBy(hyps, [i \in 1..Len(hyps) |-> hyps[i].cost]), 1, beam_size)

\* finalize with the completion loop left out.
complete_remaining_skipped(dec) == dec.hypotheses

\* The body of the loop of finalize with a "?" for a trailing partial
\* character.
complete_character_guessed(dec, hyp, ch) ==
    IF ch # NoChar
    THEN add_character(hyp, ch,
             get_cost(dec.lm, hyp.lm_context, ch) * dec.params.lm_weight)
    ELSE IF hyp.trie_node # ROOT
    THEN add_character(hyp, "?", 0)
    ELSE hyp

\* The loop of finalize: complete any remaining characters.
\* The body of that loop for a hypothesis whose trie node has terminal ch.
complete_character(dec, hyp, ch) ==
    IF ch # NoChar
    THEN add_character(hyp, ch,
             get_cost(dec.lm, hyp.lm_context, ch) * dec.params.lm_weight)
    ELSE hyp

complete_remaining(dec) ==
    [i \in 1..Len(dec.hypotheses) |->
        complete_character(dec, dec.hypotheses[i],
                           get_terminal(dec.hypotheses[i].trie_node))]

finalize_overflows(dec) ==
    \E i \in 1..Len(dec.hypotheses) :
        /\ get_terminal(dec.hypotheses[i].trie_node) # NoChar
        /\ add_overflows(dec.hypotheses[i], get_terminal(dec.hypotheses[i].trie_node))

\* min_by with a placeholder text "?" where the beam is empty.
first_min_by_cost_placeholder(completed) ==
    IF completed = <<>> THEN [Hypothesis_new EXCEPT !.text = <<"?">>]
    ELSE completed[CHOOSE i \in 1..Len(completed) :
            /\ \A j \in 1..Len(completed) : completed[i].cost <= completed[j].cost
            /\ \A j \in 1..(i - 1) : completed[j].cost > completed[i].cost]

\* BeamSearchDecoder::finalize: min_by returns the first minimum.
\* min_by on the costs, unwrap_or_else(Hypothesis::new).
first_min_by_cost(completed) ==
    IF completed = <<>> THEN Hypothesis_new
    ELSE completed[CHOOSE i \in 1..Len(completed) :
            /\ \A j \in 1..Len(completed) : completed[i].cost <= completed[j].cost
            /\ \A j \in 1..(i - 1) : completed[j].cost > completed[i].cost]

finalize(dec) == first_min_by_cost(complete_remaining(dec))

\* h.text.len() >= max_output_length as usize; a negative i32 converts to a
\* usize above every length.
reaches_output_length(hyp, max_len) ==
    IF max_len < 0 THEN FALSE ELSE Len(hyp.text) >= max_len

\* The confidence estimate with the final ".max(0.0)" left out.
confidence_of_unclamped(cost, text_len) ==
    IF text_len = 0 THEN 0
    ELSE LET avg_cost_per_char == cost \div text_len
         IN  IF avg_cost_per_char < 0
             THEN 950000 + Min((-avg_cost_per_char) \div 200, 50000)
             ELSE IF avg_cost_per_char <= 3000000
             THEN 950000 - (avg_cost_per_char * 33) \div 1000
             ELSE IF avg_cost_per_char <= 8000000
             THEN 850000 - (avg_cost_per_char - 3000000) \div 50
             ELSE 700000 - (avg_cost_per_char - 8000000) \div 100

\* The confidence estimate of parse_morse_signals_beam_search.
confidence_of(cost, text_len) ==
    IF text_len = 0 THEN 0
    ELSE LET avg_cost_per_char == cost \div text_len
             raw == IF avg_cost_per_char < 0
                    THEN 950000 + Min((-avg_cost_per_char) \div 200, 50000)
                    ELSE IF avg_cost_per_char <= 3000000
                    THEN 950000 - (avg_cost_per_char * 33) \div 1000
                    ELSE IF avg_cost_per_char <= 8000000
                    THEN 850000 - (avg_cost_per_char - 3000000) \div 50
                    ELSE 700000 - (avg_cost_per_char - 8000000) \div 100
         IN  Max(raw, 0)

patterns_in(text) == Len(SelectSeq(text, LAMBDA c : c # " "))

----------------------------------------------------------------------------
(* timing.rs: the timing generator *)

DOTS_PER_DASH == 3

DOTS_PER_CHAR_GAP == 3

DOTS_PER_WORD_GAP == 7

\* The u32 state is kept as two 16-bit halves.
NoRng == [some |-> FALSE, hi |-> 0, lo |-> 0]

\* SimpleRng::new; now is the clock reading used for seed 0.
SimpleRng_new(seed, now) ==
    LET actual_seed == IF seed = 0 THEN now ELSE seed
    IN  [some |-> TRUE,
         hi   |-> ((actual_seed + 1) \div 65536) % 65536,
         lo   |-> (actual_seed + 1) % 65536]

\* state.wrapping_mul(1103515245).wrapping_add(12345);
\* 1103515245 = 16838 * 2^16 + 20077.
rng_step(rng) ==
    LET lo_full == 20077 * rng.lo + 12345
        carry   == lo_full \div 65536
    IN  [rng EXCEPT !.lo = lo_full % 65536,
                    !.hi = (carry + ((16838 * rng.lo) % 65536)
                                  + ((20077 * rng.hi) % 65536)) % 65536]

\* a * b / c for 0 <= a, 0 <= b <= c = 2^15, without exceeding 32 bits.
MulDiv(a, b, c) == (a \div c) * b + ((a % c) * b) \div c

\* apply_humanization: [duration, rng].  next_f32() is hi / 65536, so
\* (next_f32() - 0.5) * 2.0 is (hi - 32768) / 32768.
apply_humanization(base_duration, humanization_factor, rng) ==
    IF humanization_factor <= 0
    THEN [duration |-> base_duration, rng |-> rng]
    ELSE LET stepped == IF rng.some THEN rng_step(rng) ELSE rng
             max_variation == (MulFP(base_duration, humanization_factor) * 3) \div 10
             centred == stepped.hi - 32768
             variation ==
                 IF ~rng.some THEN 0
                 ELSE IF centred < 0
                 THEN -MulDiv(max_variation, -centred, 32768)
                 ELSE MulDiv(max_variation, centred, 32768)
             min_duration == base_duration \div 10
             max_duration == (base_duration * 13) \div 10
         IN  [duration |-> Min(Max(base_duration + variation, min_duration), max_duration),
              rng      |-> stepped]

\* elements.push of a humanized element; st is [elements, rng].
push_element(st, element_type, base_duration, humanization_factor) ==
    LET h == apply_humanization(base_duration, humanization_factor, st.rng)
    IN  [elements |-> Append(st.elements,
                             [element_type |-> element_type,
                              duration_seconds |-> h.duration]),
         rng |-> h.rng]

\* The "Add pattern elements" loop from element i (1-based) on.
RECURSIVE push_pattern(_, _, _, _, _)
push_pattern(st, pattern, i, dot_sec, humanization_factor) ==
    IF i > Len(pattern) THEN st
    ELSE LET base_duration == IF pattern[i] = DASH THEN dot_sec * DOTS_PER_DASH
                              ELSE dot_sec
             pushed == push_element(st, pattern[i], base_duration, humanization_factor)
             gapped == IF i < Len(pattern)
                       THEN push_element(pushed, GAP, dot_sec, humanization_factor)
                       ELSE pushed
         IN  IF Len(gapped.elements) > 0
             THEN push_pattern(gapped, pattern, i + 1, dot_sec, humanization_factor)
             ELSE gapped

\* The while loop of morse_timing from byte i on.  prosign is -1 outside
\* brackets, and the prosign_char_count inside.
RECURSIVE timing_scan(_, _, _, _, _)
timing_scan(text, i, st, prosign, params) ==
    IF i > Len(text) THEN st
    ELSE LET ch == text[i]
             dot_sec == 1200000 \div params.wpm
             hf == params.humanization_factor
             pattern == get_morse_pattern(ch)
         IN  IF prosign >= 0
             THEN IF ch = "]" THEN timing_scan(text, i + 1, st, -1, params)
                  ELSE IF ch = " " \/ pattern = <<>>
                  THEN timing_scan(text, i + 1, st, prosign, params)
                  ELSE LET gapped == IF prosign > 0
                                     THEN push_element(st, GAP, dot_sec, hf)
                                     ELSE st
                       IN  timing_scan(text, i + 1,
                               push_pattern(gapped, pattern, 1, dot_sec, hf),
                               prosign + 1, params)
             ELSE IF ch = " "
             THEN timing_scan(text, i + 1,
                      push_element(st, GAP,
                          MulFP(dot_sec * DOTS_PER_WORD_GAP, params.word_gap_multiplier), hf),
                      -1, params)
             ELSE IF ch = "[" THEN timing_scan(text, i + 1, st, 0, params)
             ELSE IF pattern = <<>> THEN timing_scan(text, i + 1, st, -1, params)
             ELSE LET should_add_gap ==
                          /\ st.elements # <<>>
                          /\ st.elements[Len(st.elements)].element_type # GAP
                      gapped == IF should_add_gap
                                THEN push_element(st, GAP, dot_sec * DOTS_PER_CHAR_GAP, hf)
                                ELSE st
                  IN  timing_scan(text, i + 1,
                          push_pattern(gapped, pattern, 1, dot_sec, hf), -1, params)

\* morse_timing: [ok, err, elements].
morse_timing(text, params, now) ==
    IF params.wpm <= 0
    THEN [ok |-> FALSE, err |-> "Invalid WPM", elements |-> <<>>]
    ELSE LET rng == IF params.humanization_factor > 0
                    THEN SimpleRng_new(params.random_seed, now)
                    ELSE NoRng
         IN  [ok |-> TRUE, err |-> "",
              elements |-> timing_scan(text, 1, [elements |-> <<>>, rng |-> rng],
                                       -1, params).elements]

MorseTimingParams_default ==
    [wpm |-> 20, word_gap_multiplier |-> 1000000, humanization_factor |-> 0,
     random_seed |-> 0]

\* No call of generate_morse_timing is in progress.
NoGenerator ==
    [pc |-> "idle", text |-> <<>>, params |-> MorseTimingParams_default,
     elements |-> <<>>]

\* lib.rs: timing_elements_to_signals
timing_elements_to_signals(elements) ==
    [i \in 1..Len(elements) |->
        [on |-> elements[i].element_type # GAP,
         seconds |-> elements[i].duration_seconds]]

----------------------------------------------------------------------------
(* interpret.rs: morse_interpret as a function of its input *)

Ok(text, conf, processed, recognized) ==
    [ok |-> TRUE, err |-> "", text |-> text, confidence |-> conf,
     signals_processed |-> processed, patterns_recognized |-> recognized]

Err(msg) ==
    [ok |-> FALSE, err |-> msg, text |-> <<>>, confidence |-> 0,
     signals_processed |-> 0, patterns_recognized |-> 0]

\* One iteration of the loop of parse_morse_signals_beam_search up to the
\* safety check: update_timing, then process_on_signal or process_off_signal
\* (prune_beam included).  expanded is new_hypotheses.len().
pruned_step(timed, new_hypotheses) ==
    [decoder  |-> [timed EXCEPT !.hypotheses =
                      prune_beam(new_hypotheses, timed.params.beam_size)],
     expanded |-> Len(new_hypotheses)]

process_signal(timed, signal) ==
    pruned_step(timed, IF signal.on
                       THEN on_new_hypotheses(timed, signal)
                       ELSE off_new_hypotheses(timed, signal))

signal_step(dec, signal) == process_signal(update_timing(dec, signal), signal)

\* The safety check for output length.
output_limit_reached(dec, max_len) ==
    \E i \in 1..Len(dec.hypotheses) : reaches_output_length(dec.hypotheses[i], max_len)

\* The loop from signal i on: [decoder, signals_processed].
RECURSIVE decode_from(_, _, _, _, _)
decode_from(dec, sigs, i, processed, max_len) ==
    IF i > Len(sigs) THEN [decoder |-> dec, signals_processed |-> processed]
    ELSE LET next == signal_step(dec, sigs[i]).decoder
         IN  IF output_limit_reached(next, max_len)
             THEN [decoder |-> next, signals_processed |-> processed]
             ELSE decode_from(next, sigs, i + 1, processed + 1, max_len)

\* The result parse_morse_signals_beam_search builds from the decoder it
\* leaves the loop with.
result_from(best_hypothesis, processed) ==
    Ok(best_hypothesis.text,
       confidence_of(best_hypothesis.cost, Len(best_hypothesis.text)),
       processed,
       patterns_in(best_hypothesis.text))

result_of(dec, processed) == result_from(finalize(dec), processed)

parse_morse_signals_beam_search(sigs, tm, max_len, profile) ==
    IF sigs = <<>> THEN Ok(<<>>, 0, 0, 0)
    ELSE LET ran == decode_from(BeamSearchDecoder_new(tm, BeamSearchParams_default, profile),
                                sigs, 1, 0, max_len)
         IN  result_of(ran.decoder, ran.signals_processed)

\* morse_interpret in a build where the u16 increment wraps.
morse_interpret(sigs, max_len, profile) ==
    IF sigs = <<>> THEN Ok(<<>>, 0, 0, 0)
    ELSE LET tm == from_signals(sigs)
         IN  IF ~tm.ok THEN Err(tm.err)
             ELSE parse_morse_signals_beam_search(sigs, tm.value, max_len, profile)

----------------------------------------------------------------------------
(* Inputs *)

Sig(on, seconds) == [on |-> on, seconds |-> seconds]

\* Longest input drawn freely.
MaxLen == 3

\* Durations of the freely drawn signals: noise (below NOISE_THRESHOLD), and
\* the dot (element gap) and the dash (character gap) of the tests of
\* interpret.rs.
Durations == {1000, 100000, 300000}

FreeSignals == {Sig(on, d) : on \in BOOLEAN, d \in Durations}

FreeInputs == UNION {[1..n -> FreeSignals] : n \in 0..MaxLen}

\* The 31 signals of test_hello.
test_hello_signals ==
    LET dot == 100000
        dash == 300000
        element_gap == 100000
        char_gap == 300000
        letter(pattern, last) ==
            Flatten([i \in 1..Len(pattern) |->
                <<Sig(TRUE, IF pattern[i] = DOT THEN dot ELSE dash)>>
                \o (IF i < Len(pattern) THEN <<Sig(FALSE, element_gap)>>
                    ELSE IF last THEN <<>> ELSE <<Sig(FALSE, char_gap)>>)])
    IN  letter(get_morse_pattern("H"), FALSE) \o letter(get_morse_pattern("E"), FALSE)
        \o letter(get_morse_pattern("L"), FALSE) \o letter(get_morse_pattern("L"), FALSE)
        \o letter(get_morse_pattern("O"), TRUE)

\* generate_morse_timing followed by timing_elements_to_signals, as in the
\* round-trip tests of lib.rs.
round_trip_signals(text, params) ==
    timing_elements_to_signals(morse_timing(text, params, 0).elements)

RoundTripTexts ==
    { <<"E">>, <<"A">>, <<"S">>, <<"O">>, <<"H", "I">>, <<"O", "K">>,
      <<"S", "O", "S">>, <<"H", "E", "L", "L", "O">>,
      <<"H", "I", " ", "T", "H", "E", "R", "E">> }

FuzzyCases ==
    { [text |-> <<"S", "O", "S">>,
       params |-> [MorseTimingParams_default EXCEPT
                      !.humanization_factor = 600000, !.random_seed = 123]],
      [text |-> <<"H", "I", " ", "T", "H", "E", "R", "E">>,
       params |-> [MorseTimingParams_default EXCEPT
                      !.humanization_factor = 500000, !.random_seed = 456]] }

\* The signals of test_single_dot.
ScenarioE == <<Sig(TRUE, 100000), Sig(FALSE, 300000)>>

\* Six dots in a row, which no pattern has, then a gap and a dot.
dead_end_signals ==
    << Sig(TRUE, 100000), Sig(TRUE, 100000), Sig(TRUE, 100000),
       Sig(TRUE, 100000), Sig(TRUE, 100000), Sig(TRUE, 100000),
       Sig(FALSE, 300000), Sig(TRUE, 100000) >>

\* A silence of three dots before "S" keyed with element gaps of one dot.
leading_silence_signals ==
    << Sig(FALSE, 300000), Sig(TRUE, 100000), Sig(FALSE, 100000),
       Sig(TRUE, 100000), Sig(FALSE, 100000), Sig(TRUE, 100000) >>

\* A word of more than LONG_WORD_LENGTH_THRESHOLD + 1 characters before a
\* word gap, so that a character gap meets a pending word longer than the
\* threshold.
long_pending_text == <<"S", "T", "R", "E", "E", "T", " ", "E">>

\* A dash, a gap of 0.3 s, and the input ends inside a character: the node
\* of "---." carries no character.
partial_character_signals ==
    << Sig(TRUE, 300000), Sig(FALSE, 300000),
       Sig(TRUE, 300000), Sig(FALSE, 100000), Sig(TRUE, 300000), Sig(FALSE, 100000),
       Sig(TRUE, 300000), Sig(FALSE, 100000), Sig(TRUE, 100000) >>

DegradingInputs ==
    {dead_end_signals, leading_silence_signals, partial_character_signals,
     round_trip_signals(long_pending_text, MorseTimingParams_default)}

ScenarioInputs ==
    {test_hello_signals}
    \cup {round_trip_signals(t, MorseTimingParams_default) : t \in RoundTripTexts}
    \cup {round_trip_signals(c.text, c.params) : c \in FuzzyCases}
    \cup DegradingInputs

\* MorseInterpretParams::default().max_output_length
DefaultMaxOutputLength == 1000

MaxOutputLengths == {0, 2, DefaultMaxOutputLength}

\* A text of two words decoded under output limits shorter than the text.
capped_signals ==
    round_trip_signals(<<"H", "I", " ", "T", "H", "E", "R", "E">>,
                       MorseTimingParams_default)

CappedOutputLengths == {1, 2, 3}

\* No MorseTrie::build in progress.
NoBuild == [nodes |-> <<>>, pending |-> <<>>, ch |-> NoChar, pos |-> 0, node |-> ROOT]

----------------------------------------------------------------------------
(* The call morse_interpret(signals, params), one loop iteration per step *)

Init ==
    /\ generator = NoGenerator
    /\ \/ (signals \in FreeInputs /\ max_output_length \in MaxOutputLengths)
       \/ (signals \in ScenarioInputs /\ max_output_length = DefaultMaxOutputLength)
       \/ (signals = capped_signals /\ max_output_length \in CappedOutputLengths)
    /\ lm \in LMProfiles
    /\ overflow_checks = TRUE
    /\ pc = "start"
    /\ idx = 0
    /\ timings = NoTimings
    /\ decoder = NoDecoder
    /\ expanded = 0
    /\ result = Ok(<<>>, 0, 0, 0)
    /\ TRIE = OnceLock_new(<<>>)
    /\ LM = OnceLock_new("")
    /\ threads = <<>>
    /\ build = NoBuild

\* morse_interpret after the empty-input return: the error of from_signals,
\* or BeamSearchDecoder::new and the entry of the loop.
StartDecoding(tm) ==
    IF ~tm.ok
    THEN /\ result' = Err(tm.err)
         /\ pc' = "done"
         /\ UNCHANGED <<timings, decoder, idx, TRIE, LM>>
    ELSE /\ timings' = tm.value
         /\ decoder' = BeamSearchDecoder_new(tm.value, BeamSearchParams_default, lm)
         /\ TRIE' = get_or_init(TRIE, MorseTrie_build)
         /\ LM' = get_or_init(LM, lm)
         /\ idx' = 1
         /\ pc' = "loop"
         /\ result' = Ok(<<>>, 0, 0, 0)

\* morse_interpret with the "if signals.is_empty()" return left out.
MorseInterpret_without_empty_return ==
    /\ pc = "start"
    /\ StartDecoding(from_signals(signals))
    /\ UNCHANGED <<signals, max_output_length, lm, overflow_checks, expanded,
                   threads, build, generator>>

\* morse_interpret up to the loop: the empty-input return, from_signals and
\* its error, BeamSearchDecoder::new.
MorseInterpret ==
    /\ pc = "start"
    /\ IF signals = <<>>
       THEN /\ result' = Ok(<<>>, 0, 0, 0)
            /\ pc' = "done"
            /\ UNCHANGED <<timings, decoder, idx, TRIE, LM>>
       ELSE StartDecoding(from_signals(signals))
    /\ UNCHANGED <<signals, max_output_length, lm, overflow_checks, expanded,
                   threads, build, generator>>

\* The rest of a loop iteration once the signal is processed: the safety
\* check, signals_processed += 1, the next signal or the end of the loop.
AfterSignal(step) ==
    /\ decoder' = step.decoder
    /\ expanded' = step.expanded
    /\ IF output_limit_reached(step.decoder, max_output_length)
       THEN /\ pc' = "finalize"
            /\ UNCHANGED <<idx, result>>
       ELSE /\ result' = [result EXCEPT !.signals_processed = @ + 1]
            /\ idx' = idx + 1
            /\ pc' = IF idx + 1 > Len(signals) THEN "finalize" ELSE "loop"

\* A loop iteration on an ON signal.
ProcessOnSignal ==
    /\ pc = "loop"
    /\ idx <= Len(signals)
    /\ signals[idx].on
    /\ AfterSignal(signal_step(decoder, signals[idx]))
    /\ UNCHANGED <<signals, max_output_length, lm, overflow_checks, timings,
                   TRIE, LM, threads, build, generator>>

\* A loop iteration on an OFF signal; add_character may overflow the u16.
ProcessOffSignal ==
    /\ pc = "loop"
    /\ idx <= Len(signals)
    /\ ~signals[idx].on
    /\ IF overflow_checks /\ off_overflows(update_timing(decoder, signals[idx]), signals[idx])
       THEN /\ pc' = "panic"
            /\ UNCHANGED <<decoder, expanded, idx, result>>
       ELSE AfterSignal(signal_step(decoder, signals[idx]))
    /\ UNCHANGED <<signals, max_output_length, lm, overflow_checks, timings,
                   TRIE, LM, threads, build, generator>>

\* After the loop: finalize (which takes the hypotheses), the confidence and
\* patterns_recognized.
Finalize ==
    /\ pc = "finalize"
    /\ IF overflow_checks /\ finalize_overflows(decoder)
       THEN /\ pc' = "panic"
            /\ UNCHANGED <<decoder, result>>
       ELSE /\ result' = result_of(decoder, result.signals_processed)
            /\ decoder' = [decoder EXCEPT !.hypotheses = <<>>]
            /\ pc' = "done"
    /\ UNCHANGED <<signals, max_output_length, lm, overflow_checks, idx, timings,
                   expanded, TRIE, LM, threads, build, generator>>

Next == MorseInterpret \/ ProcessOnSignal \/ ProcessOffSignal \/ Finalize

Spec == Init /\ [][Next]_vars

----------------------------------------------------------------------------
(* A word longer than a u16 can count.                                       *)
(*                                                                           *)
(* The input is [ON 0.1 s, OFF 0.3 s] repeated.  All gaps are equal, so both *)
(* thresholds are 0.3 s and every gap is an InterCharacter gap; the cheapest *)
(* hypotheses carry one word without a space, made of the character with the *)
(* least trigram cost per dot ("EEE..." when the costs are 0, "HHH..." when  *)
(* letters are cheaper than digits, "555..." otherwise).  The run is taken   *)
(* up after n characters: signals holds the signals still to come, the beam  *)
(* is represented by that cheapest hypothesis, and its cost is counted from  *)
(* 0 there (the steps compare costs, they never read their absolute value).  *)

LongWordPairs == 2

long_word_signals(pairs) ==
    [i \in 1..(2 * pairs) |->
        IF i % 2 = 1 THEN Sig(TRUE, 100000) ELSE Sig(FALSE, 300000)]

long_word_hypothesis(ch, n) ==
    [Hypothesis_new EXCEPT !.lm_context = <<ch, ch>>,
                           !.pending_word_len = n,
                           !.text = SubSeq([i \in 1..n |-> ch], 1, n)]

\* The character the cheapest hypothesis repeats.
long_word_char(profile) ==
    CASE profile = "frequent" -> "E"
      [] profile = "letters"  -> "H"
      [] OTHER                -> "5"

\* Three pairs already give the thresholds of the whole input.
long_word_timings == from_signals(long_word_signals(3)).value

InitLongWord ==
    /\ generator = NoGenerator
    /\ signals = long_word_signals(LongWordPairs)
    /\ max_output_length = 2 * (U16_MAX + 1)
    /\ lm \in LMProfiles
    /\ overflow_checks \in BOOLEAN
    /\ pc = "loop"
    /\ idx = 1
    /\ timings = long_word_timings
    /\ \E n \in (U16_MAX - LongWordPairs - 1)..U16_MAX :
          /\ decoder =
                [BeamSearchDecoder_new(long_word_timings, BeamSearchParams_default, lm)
                    EXCEPT !.hypotheses =
                        <<long_word_hypothesis(long_word_char(lm), n)>>]
          /\ result = Ok(<<>>, 0,
                         2 * n * Len(get_morse_pattern(long_word_char(lm))), 0)
    /\ expanded = 1
    /\ TRIE = get_or_init(OnceLock_new(<<>>), MorseTrie_build)
    /\ LM = get_or_init(OnceLock_new(""), lm)
    /\ threads = <<>>
    /\ build = NoBuild

NextLongWord == ProcessOnSignal \/ ProcessOffSignal

SpecLongWord == InitLongWord /\ [][NextLongWord]_vars

----------------------------------------------------------------------------
(* The confidence estimate over the whole range of costs: finalize and the   *)
(* estimate applied to a best hypothesis of any cost.                        *)

ProbeCosts ==
    { -2000000000, -10000001, -10000000, -9999999, -1, 0, 1,
      2999999, 3000000, 3000001, 7999999, 8000000, 8000001,
      77999999, 78000000, 78000001, 2000000000 }

ProbeTexts == { <<>>, <<"E">>, <<"E", " ">>, <<"S", "O", "S">> }

\* The length of the word a text ends with.
trailing_word_len(text) ==
    LET spaces == {j \in 1..Len(text) : text[j] = " "}
    IN  IF spaces = {} THEN Len(text)
        ELSE Len(text) - (CHOOSE j \in spaces : \A k \in spaces : k <= j)

\* The lm_context a hypothesis with this text carries.
context_of(text) ==
    LET padded == <<" ", " ">> \o text
    IN  <<padded[Len(padded) - 1], padded[Len(padded)]>>

InitConfidence ==
    /\ generator = NoGenerator
    /\ signals = <<Sig(TRUE, 100000)>>
    /\ max_output_length = DefaultMaxOutputLength
    /\ lm \in LMProfiles
    /\ overflow_checks = TRUE
    /\ pc = "finalize"
    /\ idx = 2
    /\ timings = from_signals(signals).value
    /\ \E cost \in ProbeCosts, text \in ProbeTexts,
          node \in {ROOT, transition(ROOT, DOT)} :
          decoder =
             [BeamSearchDecoder_new(from_signals(signals).value,
                                    BeamSearchParams_default, lm)
                 EXCEPT !.hypotheses =
                     << [trie_node |-> node,
                         lm_context |-> context_of(text),
                         pending_word_len |-> trailing_word_len(text),
                         cost |-> cost,
                         text |-> text] >>]
    /\ expanded = 1
    /\ result = Ok(<<>>, 0, 1, 0)
    /\ TRIE = get_or_init(OnceLock_new(<<>>), MorseTrie_build)
    /\ LM = get_or_init(OnceLock_new(""), lm)
    /\ threads = <<>>
    /\ build = NoBuild

NextConfidence == Finalize

SpecConfidence == InitConfidence /\ [][NextConfidence]_vars

----------------------------------------------------------------------------
(* Concurrent calls.  Every thread calls morse_interpret again and again;   *)
(* the only state the calls share is the two OnceLock cells, which          *)
(* BeamSearchDecoder::new reads through get_morse_trie and                  *)
(* get_language_model.  get_or_init is taken in its steps: a thread that    *)
(* finds the cell uninit becomes its initializer (running), a thread that   *)
(* finds it running waits, a thread that finds it complete reads it.        *)
(* Signals, timings and decoder are locals of the call, so the loop of a    *)
(* call is one step of its thread.                                          *)

MaxThreads == 2

Threads == 1..MaxThreads

ThreadInputs == { <<>>, <<Sig(FALSE, 300000)>>, ScenarioE }

ThreadOutputLengths == {1, DefaultMaxOutputLength}

IdleThread ==
    [pc |-> "idle", signals |-> <<>>, max_output_length |-> 0,
     result |-> Ok(<<>>, 0, 0, 0)]

\* morse_interpret up to BeamSearchDecoder::new, as a thread's call.
thread_entry(sigs, max_len, tm) ==
    [pc |-> IF sigs = <<>> \/ ~tm.ok THEN "done" ELSE "get_morse_trie",
     signals |-> sigs,
     max_output_length |-> max_len,
     result |-> IF sigs # <<>> /\ ~tm.ok THEN Err(tm.err) ELSE Ok(<<>>, 0, 0, 0)]

ThreadCall(t) ==
    /\ threads[t].pc = "idle"
    /\ \E sigs \in ThreadInputs, max_len \in ThreadOutputLengths :
          threads' = [threads EXCEPT
                         ![t] = thread_entry(sigs, max_len, from_signals(sigs))]
    /\ UNCHANGED <<call_vars, TRIE, LM, build, generator>>

\* get_morse_trie with a check-then-build in place of the OnceLock: a thread
\* that finds the cell not complete builds, whoever else is building.
GetMorseTrie_unguarded(t) ==
    /\ threads[t].pc = "get_morse_trie"
    /\ threads' = [threads EXCEPT ![t].pc =
                      IF TRIE.state = "complete" THEN "get_language_model"
                      ELSE "MorseTrie_build"]
    /\ UNCHANGED <<call_vars, TRIE, LM, build, generator>>

\* TRIE.get_or_init(MorseTrie::build), up to the initializer.
GetMorseTrie(t) ==
    /\ threads[t].pc = "get_morse_trie"
    /\ TRIE.state # "running"
    /\ IF TRIE.state = "complete"
       THEN /\ threads' = [threads EXCEPT ![t].pc = "get_language_model"]
            /\ UNCHANGED TRIE
       ELSE /\ threads' = [threads EXCEPT ![t].pc = "MorseTrie_build"]
            /\ TRIE' = [TRIE EXCEPT !.state = "running"]
    /\ UNCHANGED <<call_vars, LM, build, generator>>

\* The initializer of TRIE: MorseTrie::build, and the store of its value.
BuildMorseTrie(t) ==
    /\ threads[t].pc = "MorseTrie_build"
    /\ TRIE' = initialized(TRIE, MorseTrie_build)
    /\ threads' = [threads EXCEPT ![t].pc = "get_language_model"]
    /\ UNCHANGED <<call_vars, LM, build, generator>>

\* LM.get_or_init(LanguageModel::new), up to the initializer.
GetLanguageModel(t) ==
    /\ threads[t].pc = "get_language_model"
    /\ LM.state # "running"
    /\ IF LM.state = "complete"
       THEN /\ threads' = [threads EXCEPT ![t].pc = "decode"]
            /\ UNCHANGED LM
       ELSE /\ threads' = [threads EXCEPT ![t].pc = "LanguageModel_new"]
            /\ LM' = [LM EXCEPT !.state = "running"]
    /\ UNCHANGED <<call_vars, TRIE, build, generator>>

\* The initializer of LM: LanguageModel::new with the table of the build.
BuildLanguageModel(t) ==
    /\ threads[t].pc = "LanguageModel_new"
    /\ LM' = initialized(LM, lm)
    /\ threads' = [threads EXCEPT ![t].pc = "decode"]
    /\ UNCHANGED <<call_vars, TRIE, build, generator>>

\* The rest of parse_morse_signals_beam_search: the loop, finalize and the
\* result, with the language model the cell holds.
ThreadDecode(t) ==
    /\ threads[t].pc = "decode"
    /\ TRIE.state = "complete"
    /\ LM.state = "complete"
    /\ threads' = [threads EXCEPT
                      ![t].pc = "done",
                      ![t].result = parse_morse_signals_beam_search(
                                       threads[t].signals,
                                       from_signals(threads[t].signals).value,
                                       threads[t].max_output_length,
                                       LM.value)]
    /\ UNCHANGED <<call_vars, TRIE, LM, build, generator>>

\* The caller takes the result; the thread is free for its next call.
ThreadReturn(t) ==
    /\ threads[t].pc = "done"
    /\ threads' = [threads EXCEPT ![t] = IdleThread]
    /\ UNCHANGED <<call_vars, TRIE, LM, build, generator>>

InitThreads ==
    /\ generator = NoGenerator
    /\ signals = <<>>
    /\ max_output_length = DefaultMaxOutputLength
    /\ lm \in LMProfiles
    /\ overflow_checks = TRUE
    /\ pc = "start"
    /\ idx = 0
    /\ timings = NoTimings
    /\ decoder = NoDecoder
    /\ expanded = 0
    /\ result = Ok(<<>>, 0, 0, 0)
    /\ TRIE = OnceLock_new(<<>>)
    /\ LM = OnceLock_new("")
    /\ threads = [t \in Threads |-> IdleThread]
    /\ build = NoBuild

NextThreads ==
    \E t \in Threads :
        \/ ThreadCall(t)
        \/ GetMorseTrie(t)
        \/ BuildMorseTrie(t)
        \/ GetLanguageModel(t)
        \/ BuildLanguageModel(t)
        \/ ThreadDecode(t)
        \/ ThreadReturn(t)

SpecThreads == InitThreads /\ [][NextThreads]_vars

----------------------------------------------------------------------------
(* MorseTrie::build one add_pattern call per step, then walks through the   *)
(* trie it built: a character of the pattern table is chosen and its        *)
(* pattern followed from ROOT one transition per step.                      *)

\* The supported punctuation of patterns.rs.
Punctuation ==
    {".", ",", "?", "'", "!", "/", "(", ")", "&", ":", ";", "=", "+", "-", "_",
     "\"", "$", "@"}

\* A-Z, 0-9 and the supported punctuation.
TrieChars == SeqRange(UpperLetters) \cup SeqRange(Digits) \cup Punctuation

\* The add_pattern calls of a build that takes the bytes in one pass.
build_order_single_pass == PatternBytes

\* The characters MorseTrie::build adds, in the order of its add_pattern
\* calls: the non-alphabetic bytes in ascending order, then 'A'..='Z'.
build_order ==
    SelectSeq(PatternBytes, LAMBDA ch : ~is_alphabetic(ch)) \o UpperLetters

\* The node a pattern leads to from node_idx, 0 where a transition is missing.
RECURSIVE follow(_, _, _)
follow(nodes, node_idx, pattern) ==
    IF pattern = <<>> THEN node_idx
    ELSE IF trie_transition(nodes, node_idx, Head(pattern)) = 0 THEN 0
    ELSE follow(nodes, trie_transition(nodes, node_idx, Head(pattern)), Tail(pattern))

InitTrie ==
    /\ generator = NoGenerator
    /\ signals = <<>>
    /\ max_output_length = DefaultMaxOutputLength
    /\ lm = "empty"
    /\ overflow_checks = TRUE
    /\ pc = "start"
    /\ idx = 0
    /\ timings = NoTimings
    /\ decoder = NoDecoder
    /\ expanded = 0
    /\ result = Ok(<<>>, 0, 0, 0)
    /\ TRIE = OnceLock_new(<<>>)
    /\ LM = OnceLock_new("")
    /\ threads = <<>>
    /\ build = [NoBuild EXCEPT !.nodes = <<TrieNode_new>>, !.pending = build_order]

\* One add_pattern call of MorseTrie::build.
AddPattern ==
    /\ build.pending # <<>>
    /\ build' = [build EXCEPT
                    !.nodes = add_pattern(build.nodes,
                                          get_morse_pattern(Head(build.pending)),
                                          Head(build.pending)),
                    !.pending = Tail(build.pending)]
    /\ UNCHANGED <<call_vars, TRIE, LM, threads, generator>>

\* A lookup starts at ROOT with the pattern of a character.
StartWalk ==
    /\ build.pending = <<>>
    /\ build.pos = Len(get_morse_pattern(build.ch))
    /\ \E c \in TrieChars :
          build' = [build EXCEPT !.ch = c, !.pos = 0, !.node = ROOT]
    /\ UNCHANGED <<call_vars, TRIE, LM, threads, generator>>

\* One transition of the lookup.
WalkStep ==
    /\ build.pending = <<>>
    /\ build.pos < Len(get_morse_pattern(build.ch))
    /\ build.pos = 0 \/ build.node # ROOT
    /\ build' = [build EXCEPT
                    !.pos = build.pos + 1,
                    !.node = trie_transition(build.nodes, build.node,
                                 get_morse_pattern(build.ch)[build.pos + 1])]
    /\ UNCHANGED <<call_vars, TRIE, LM, threads, generator>>

NextTrie == AddPattern \/ StartWalk \/ WalkStep

SpecTrie == InitTrie /\ [][NextTrie]_vars

----------------------------------------------------------------------------
(* The timing estimator over runs of tones.  The calls are those of          *)
(* morse_interpret on inputs without gaps, with ON durations that lie on     *)
(* both sides of the dot/dash boundary of the estimates they produce         *)
(* (sqrt(3) unit times: 0.17 s and 0.175 s around a unit of 0.1 s).          *)

MaxOn == 3

OnDurations == {20000, 60000, 100000, 170000, 175000, 300000, 900000}

OnInputs == UNION {[1..n -> {Sig(TRUE, d) : d \in OnDurations}] : n \in 1..MaxOn}

InitEstimator ==
    /\ generator = NoGenerator
    /\ signals \in OnInputs
    /\ max_output_length = DefaultMaxOutputLength
    /\ lm = "empty"
    /\ overflow_checks = TRUE
    /\ pc = "start"
    /\ idx = 0
    /\ timings = NoTimings
    /\ decoder = NoDecoder
    /\ expanded = 0
    /\ result = Ok(<<>>, 0, 0, 0)
    /\ TRIE = OnceLock_new(<<>>)
    /\ LM = OnceLock_new("")
    /\ threads = <<>>
    /\ build = NoBuild

NextEstimator == MorseInterpret \/ ProcessOnSignal \/ Finalize

SpecEstimator == InitEstimator /\ [][NextEstimator]_vars

----------------------------------------------------------------------------
(* The timing generator on its own: generate_morse_timing on short texts *)

MaxText == 4

\* Bytes of the text: a one-element character, a two-element character, the
\* space and the prosign brackets.
TextBytes == {"E", "N", " ", "[", "]"}

TimingTexts == UNION { [1..n -> TextBytes] : n \in 1..MaxText }

\* MorseTimingParams without humanization; a wpm of 0 is the rejected one.
TimingParams ==
    { [MorseTimingParams_default EXCEPT !.wpm = w, !.word_gap_multiplier = m] :
        w \in {0, 15, 20}, m \in {1000000, 1500000} }

InitTiming ==
    /\ signals = <<>>
    /\ max_output_length = DefaultMaxOutputLength
    /\ lm = "empty"
    /\ overflow_checks = TRUE
    /\ pc = "done"
    /\ idx = 0
    /\ timings = NoTimings
    /\ decoder = NoDecoder
    /\ expanded = 0
    /\ result = Ok(<<>>, 0, 0, 0)
    /\ TRIE = OnceLock_new(<<>>)
    /\ LM = OnceLock_new("")
    /\ threads = <<>>
    /\ build = NoBuild
    /\ generator \in { [NoGenerator EXCEPT !.pc = "call", !.text = t, !.params = p] :
                         t \in TimingTexts, p \in TimingParams }

\* lib.rs: generate_morse_timing, the whole call.
GenerateMorseTiming ==
    /\ generator.pc = "call"
    /\ LET r == morse_timing(generator.text, generator.params, 0)
       IN  generator' = [generator EXCEPT
                            !.pc = IF r.ok THEN "returned" ELSE "err",
                            !.elements = r.elements]
    /\ UNCHANGED <<call_vars, TRIE, LM, threads, build>>

NextTiming == GenerateMorseTiming

SpecTiming == InitTiming /\ [][NextTiming]_vars

----------------------------------------------------------------------------
(* Properties *)

EmptyResult == Ok(<<>>, 0, 0, 0)

has_valid_on(sigs) ==
    \E i \in 1..Len(sigs) : sigs[i].on /\ sigs[i].seconds >= NOISE_THRESHOLD

\* C1: the call on an empty signal sequence ends with Ok, text "",
\* confidence 0.0, signals_processed 0 and patterns_recognized 0, whatever
\* max_output_length is, and neither the timing analysis nor the decoder has
\* run (timings and decoder were never assigned, no signal was expanded).
C1_EmptyInput ==
    (pc = "done" /\ signals = <<>>) =>
        /\ result = EmptyResult
        /\ timings = NoTimings
        /\ decoder = NoDecoder
        /\ expanded = 0

C1_Witness ==
    /\ pc = "done"
    /\ signals = <<>>
    /\ max_output_length # DefaultMaxOutputLength
    /\ result = EmptyResult

\* C2: the call on a non-empty sequence without an ON signal of at least
\* 0.01 s (only OFF signals, or every ON signal below the noise floor) ends
\* with the error "No valid on signals found".
C2_NoValidOnSignal ==
    (pc = "done" /\ signals # <<>> /\ ~has_valid_on(signals)) =>
        /\ ~result.ok
        /\ result.err = "No valid on signals found"

C2_Witness ==
    /\ pc = "done"
    /\ \E i \in 1..Len(signals) : signals[i].on
    /\ ~has_valid_on(signals)
    /\ ~result.ok

\* pending_word_len is the length of the word the text of hyp ends with.
counts_pending_word(hyp) ==
    LET n == Len(hyp.text)
        w == hyp.pending_word_len
    IN  /\ w <= n
        /\ \A j \in (n - w + 1)..n : hyp.text[j] # " "
        /\ (w < n => hyp.text[n - w] = " ")

\* C3: the missing-ON error is the only hard failure: with a valid ON signal
\* and a positive max_output_length the call never panics, pending_word_len
\* never overflows (it always is the length of the word the text ends with),
\* and the call ends with Ok.
C3_OnlyHardFailure ==
    (has_valid_on(signals) /\ max_output_length > 0) =>
        /\ pc # "panic"
        /\ \A i \in 1..Len(decoder.hypotheses) :
              counts_pending_word(decoder.hypotheses[i])
        /\ (pc = "done" => result.ok)

\* The increment of pending_word_len is reached at the u16 maximum.
C3_Overflowing ==
    /\ pc = "loop"
    /\ idx <= Len(signals)
    /\ ~signals[idx].on
    /\ off_overflows(decoder, signals[idx])

\* The signals of at least NOISE_THRESHOLD seconds, in order.
without_noise(sigs) == SelectSeq(sigs, LAMBDA s : s.seconds >= NOISE_THRESHOLD)

\* C4: signals shorter than 0.01 s are not counted in signals_processed and
\* do not change the text: the result has the text of the call on the
\* sequence without them, and signals_processed is at most the number of the
\* other signals.
C4_NoiseIgnored ==
    (pc = "done" /\ result.ok /\ without_noise(signals) # signals
        /\ max_output_length = DefaultMaxOutputLength) =>
        /\ result.signals_processed <= Len(without_noise(signals))
        /\ result.text = morse_interpret(without_noise(signals),
                                         max_output_length, lm).text

\* A 0.001 s ON signal after a dot is counted and turns "E" into "I".
C4_NoiseDecoded ==
    /\ pc = "done"
    /\ signals = <<Sig(TRUE, 100000), Sig(TRUE, 1000)>>
    /\ max_output_length = DefaultMaxOutputLength
    /\ result.signals_processed = 2
    /\ result.text = <<"I">>
    /\ morse_interpret(<<Sig(TRUE, 100000)>>, max_output_length, lm).text = <<"E">>

\* C5: whenever a signal has been processed (prune_beam has run), the
\* decoder holds at most beam_size (64) hypotheses.
C5_BeamBound == Len(decoder.hypotheses) <= DEFAULT_BEAM_SIZE

C5_Witness ==
    /\ expanded > DEFAULT_BEAM_SIZE
    /\ Len(decoder.hypotheses) = DEFAULT_BEAM_SIZE

\* The round-trip inputs with the text they encode.
RoundTripCases ==
    {[text |-> t, signals |-> round_trip_signals(t, MorseTimingParams_default)] :
        t \in RoundTripTexts}

\* C6: the signals morse_timing produces for a text without humanization
\* decode to exactly that text with confidence above 0.8, single words
\* included.
C6_RoundTrip ==
    pc = "done" =>
        \A c \in RoundTripCases :
            (signals = c.signals /\ max_output_length = DefaultMaxOutputLength) =>
                /\ result.ok
                /\ result.text = c.text
                /\ result.confidence > 800000

\* A single word comes back with a space after every character.
C6_SingleWordSplit ==
    /\ pc = "done"
    /\ signals = round_trip_signals(<<"H", "I">>, MorseTimingParams_default)
    /\ result.text = <<"H", " ", "I">>

\* C7: [ON 0.1 s, OFF 0.3 s] decodes (default max_output_length) to "E" with
\* confidence above 0, signals_processed 2 and patterns_recognized 1 under
\* every trigram table; the loop ends with two hypotheses and both carry
\* the text "E" once finalize has completed them.
C7_ScenarioE ==
    (signals = ScenarioE /\ max_output_length = DefaultMaxOutputLength) =>
        /\ pc = "finalize" =>
              /\ Len(decoder.hypotheses) = 2
              /\ \A i \in 1..2 : complete_remaining(decoder)[i].text = <<"E">>
        /\ pc = "done" =>
              /\ result.ok
              /\ result.text = <<"E">>
              /\ result.confidence > 0
              /\ result.signals_processed = 2
              /\ result.patterns_recognized = 1

C7_Witness ==
    /\ pc = "done"
    /\ signals = ScenarioE
    /\ max_output_length = DefaultMaxOutputLength
    /\ lm = "empty"
    /\ result.text = <<"E">>
    /\ result.signals_processed = 2

\* C8: the 31 signals of H-E-L-L-O (dot 0.1 s, dash 0.3 s, element gap
\* 0.1 s, character gap 0.3 s) decode to exactly "HELLO" with confidence
\* above 0.8.
C8_ScenarioHello ==
    (pc = "done" /\ signals = test_hello_signals
        /\ max_output_length = DefaultMaxOutputLength) =>
        /\ result.ok
        /\ result.text = <<"H", "E", "L", "L", "O">>
        /\ result.confidence > 800000

\* The character gaps of the scenario are classified as word gaps.
C8_CharGapIsWord ==
    /\ signals = test_hello_signals
    /\ pc = "loop"
    /\ classify_gap_min_cost(decoder.timing_model, 300000) = WORD

\* The humanized inputs with their text and the confidence bound claimed.
FuzzySignals ==
    {[text |-> c.text,
      signals |-> round_trip_signals(c.text, c.params),
      bound |-> IF c.params.random_seed = 123 THEN 500000 ELSE 400000] :
        c \in FuzzyCases}

\* C9: "SOS" humanized at 0.6 with seed 123 and "HI THERE" humanized at 0.5
\* with seed 456 decode to the original text, with confidence above 0.5 and
\* 0.4.
C9_Humanized ==
    pc = "done" =>
        \A c \in FuzzySignals :
            (signals = c.signals /\ max_output_length = DefaultMaxOutputLength) =>
                /\ result.ok
                /\ result.text = c.text
                /\ result.confidence > c.bound

\* The humanized "SOS" comes back with spaces.
C9_SosSplit ==
    /\ pc = "done"
    /\ \E c \in FuzzySignals : c.text = <<"S", "O", "S">> /\ signals = c.signals
    /\ \E i \in 1..Len(result.text) : result.text[i] = " "

\* C10: the confidence of a result lies in [0, 1], and is 0.0 when the text
\* is empty, whatever the cost of the best hypothesis.
C10_ConfidenceRange ==
    pc = "done" =>
        /\ result.confidence >= 0
        /\ result.confidence <= 1000000
        /\ (result.text = <<>> => result.confidence = 0)

\* The clamp at 0 acts: a non-empty text with confidence 0.0.
C10_Witness ==
    /\ pc = "done"
    /\ result.text # <<>>
    /\ result.confidence = 0

\* C11: once the beam is empty during the loop it stays empty under every
\* later signal, the call does not panic, and it ends with Ok, text "",
\* confidence 0.0 and patterns_recognized 0 (signals_processed keeps
\* counting: the empty beam never reaches the output limit).
C11_EmptyBeamDegrades ==
    [][(pc \in {"loop", "finalize"} /\ decoder.hypotheses = <<>>) =>
          /\ decoder'.hypotheses = <<>>
          /\ pc' \in {"loop", "finalize", "done"}
          /\ (pc' = "done" =>
                 result' = Ok(<<>>, 0, result.signals_processed, 0))
          /\ (pc = "loop" =>
                 result'.signals_processed = result.signals_processed + 1)]_vars

\* The sixth dot in a row empties the beam; the call went on through the
\* gap and the dot after it and returned the empty text.
C11_Witness ==
    /\ pc = "done"
    /\ signals = dead_end_signals
    /\ decode_from(BeamSearchDecoder_new(timings, BeamSearchParams_default, lm),
                   signals, 1, 0, max_output_length).decoder.hypotheses = <<>>
    /\ signal_step(BeamSearchDecoder_new(timings, BeamSearchParams_default, lm),
                   signals[1]).decoder.hypotheses # <<>>
    /\ result = Ok(<<>>, 0, Len(signals), 0)

\* C12: with a positive max_output_length no loop iteration starts once a
\* hypothesis has a text of max_output_length characters, and the text
\* returned has at most max_output_length characters.
C12_OutputCap ==
    (max_output_length > 0) =>
        /\ (pc = "loop" => ~output_limit_reached(decoder, max_output_length))
        /\ (pc = "done" /\ result.ok => Len(result.text) <= max_output_length)

\* "HI THERE" under max_output_length 2: the word gap after "HI" appends
\* the character and the space in one step, and the text returned has three
\* characters.
C12_Overshoot ==
    /\ pc = "done"
    /\ signals = capped_signals
    /\ max_output_length = 2
    /\ result.text = <<"H", "I", " ">>
    /\ result.signals_processed < Len(signals)

\* C13: with calls running on several threads, each singleton is written by
\* at most one initializer and then holds the built value for good (every
\* write is counted in builds), no call decodes before both are complete,
\* and every call returns what morse_interpret returns for its signals and
\* max_output_length alone, so calls with the same input return the same
\* result on every thread and on every repetition.
C13_SingletonsIsolated ==
    /\ TRIE.builds <= 1
    /\ LM.builds <= 1
    /\ (TRIE.state = "complete" => TRIE.builds = 1 /\ TRIE.value = MorseTrie_build)
    /\ (LM.state = "complete" => LM.builds = 1 /\ LM.value = lm)
    /\ \A t \in DOMAIN threads :
          /\ (threads[t].pc \in {"get_language_model", "LanguageModel_new", "decode"}
                  => TRIE.state = "complete")
          /\ (threads[t].pc = "decode" => LM.state = "complete")
          /\ (threads[t].pc = "done" =>
                  threads[t].result =
                      morse_interpret(threads[t].signals,
                                      threads[t].max_output_length, lm))
    /\ \A t, u \in DOMAIN threads :
          (/\ threads[t].pc = "done" /\ threads[u].pc = "done"
           /\ threads[t].signals = threads[u].signals
           /\ threads[t].max_output_length = threads[u].max_output_length)
              => threads[t].result = threads[u].result

\* Two threads have decoded the same signals, each through its own call,
\* with one build of each singleton between them.
C13_Witness ==
    /\ \A t \in Threads :
          /\ threads[t].pc = "done"
          /\ threads[t].signals = ScenarioE
          /\ threads[t].max_output_length = DefaultMaxOutputLength
          /\ threads[t].result.text = <<"E">>
    /\ TRIE.builds = 1
    /\ LM.builds = 1

\* C14: every character of A-Z, 0-9 and the punctuation set has a pattern,
\* no two of them have the same pattern, the walk along a character's
\* pattern never falls off the trie and ends at a node whose terminal is
\* that character, no add_pattern call of the build marks a node that
\* already carries a character, the trie built step by step is the one
\* get_morse_trie returns, and each of its terminal nodes is the end of the
\* pattern of the character it carries.
C14_TrieBijection ==
    /\ \A c \in TrieChars : get_morse_pattern(c) # <<>>
    /\ \A c, d \in TrieChars :
          c # d => get_morse_pattern(c) # get_morse_pattern(d)
    /\ (build.ch # NoChar /\ build.pos > 0) => build.node # ROOT
    /\ (build.ch # NoChar /\ build.pos = Len(get_morse_pattern(build.ch))) =>
          trie_terminal(build.nodes, build.node) = build.ch
    /\ (build.nodes # <<>> /\ build.pending # <<>>) =>
          trie_terminal(build.nodes,
                        follow(build.nodes, ROOT,
                               get_morse_pattern(Head(build.pending)))) = NoChar
    /\ (build.nodes # <<>> /\ build.pending = <<>>) =>
          /\ build.nodes = get_morse_trie
          /\ \A i \in 1..Len(build.nodes) :
                build.nodes[i].terminal # NoChar =>
                    /\ build.nodes[i].terminal \in TrieChars
                    /\ follow(build.nodes, ROOT,
                              get_morse_pattern(build.nodes[i].terminal)) = i - 1

\* The walk along the pattern of "A" (added in the second pass, below nodes
\* the first pass created) has ended at the node that carries "A".
C14_Witness ==
    /\ build.pending = <<>>
    /\ build.ch = "A"
    /\ build.pos = 2
    /\ build.node # ROOT
    /\ trie_terminal(build.nodes, build.node) = "A"

\* C15: an OFF signal processed on a non-empty beam leaves at least one
\* hypothesis, whatever its classification and wherever the hypotheses
\* stand in the trie; only an ON signal can empty the beam.
C15_OffKeepsBeam ==
    [][(/\ pc = "loop"
        /\ ~signals[idx].on
        /\ decoder.hypotheses # <<>>
        /\ pc' # "panic") => decoder'.hypotheses # <<>>]_vars

\* The leading silence is a Word gap; the one hypothesis stands at ROOT,
\* which is no terminal, and the gap has left no hypothesis.
C15_WordGapEmptiesBeam ==
    /\ signals = leading_silence_signals
    /\ pc = "loop"
    /\ idx = 2
    /\ classify_gap_min_cost(decoder.timing_model, signals[1].seconds) = WORD
    /\ expanded = 0
    /\ decoder.hypotheses = <<>>

\* A loop iteration is about to process an ON / an OFF signal.
on_pending == pc = "loop" /\ idx <= Len(signals) /\ signals[idx].on

off_pending == pc = "loop" /\ idx <= Len(signals) /\ ~signals[idx].on

\* The successor the claim describes for hyp on an ON signal classified as
\* element at the given cost.
advanced(hyp, element, cost) ==
    [trie_node        |-> transition(hyp.trie_node, element),
     lm_context       |-> hyp.lm_context,
     pending_word_len |-> hyp.pending_word_len,
     cost             |-> hyp.cost + cost,
     text             |-> hyp.text]

\* The indices of hyps, in order, whose trie node has a transition on element.
advancing(hyps, element) ==
    SelectSeq([i \in 1..Len(hyps) |-> i],
              LAMBDA i : transition(hyps[i].trie_node, element) # 0)

\* The ON step as the claim states it, for the element and cost classified.
on_step_as_claimed(hyps, new_hypotheses, element, cost) ==
    /\ Len(new_hypotheses) = Len(advancing(hyps, element))
    /\ Len(new_hypotheses) <= Len(hyps)
    /\ \A j \in 1..Len(new_hypotheses) :
          new_hypotheses[j] = advanced(hyps[advancing(hyps, element)[j]], element, cost)
    /\ {new_hypotheses[j].text : j \in 1..Len(new_hypotheses)}
          \subseteq {hyps[i].text : i \in 1..Len(hyps)}

\* The element of least cost, Dot on a tie, with its cost.
least_element(costs) ==
    IF cost_of(costs, DOT) <= cost_of(costs, DASH)
    THEN <<DOT, cost_of(costs, DOT)>>
    ELSE <<DASH, cost_of(costs, DASH)>>

\* C16: on an ON signal one element is classified (least cost under the
\* timing model updated with the signal, Dot on a tie); the new hypotheses
\* are, in order, one per hypothesis whose trie node has that transition,
\* with the trie node advanced, the cost increased by the element's cost,
\* and text, lm_context and pending_word_len unchanged; hypotheses without
\* the transition have no successor, so the beam does not grow and no text
\* changes.
C16_OnStep ==
    on_pending =>
        on_step_as_claimed(
            decoder.hypotheses,
            on_new_hypotheses(update_timing(decoder, signals[idx]), signals[idx]),
            least_element(element_costs(
                update_timing(decoder, signals[idx]).timing_model,
                signals[idx].seconds))[1],
            least_element(element_costs(
                update_timing(decoder, signals[idx]).timing_model,
                signals[idx].seconds))[2])

\* The sixth dot in a row: the hypothesis on the node of "5" had no
\* transition and left no successor, after five dots that each advanced it.
C16_Witness ==
    /\ signals = dead_end_signals
    /\ pc = "loop"
    /\ idx = 7
    /\ expanded = 0
    /\ decoder.hypotheses = <<>>
    /\ decode_from(BeamSearchDecoder_new(timings, BeamSearchParams_default, lm),
                   SubSeq(signals, 1, 5), 1, 0, max_output_length)
          .decoder.hypotheses[1].trie_node = follow(get_morse_trie, ROOT, get_morse_pattern("5"))

\* The continue successor the claim describes for hyp on an InterCharacter gap.
hedge(dec, hyp, signal) ==
    [hyp EXCEPT !.cost =
        hyp.cost + cost_of(gap_costs(dec.timing_model, signal.seconds), INTRA)
        + (IF longer_than_units(signal.seconds, dec.timing_tracker,
                                LONG_INTER_THRESHOLD_MULTIPLIER)
           THEN DEFAULT_LONG_INTER_PENALTY ELSE 0)]

\* The successors of hyp that carry a text longer than that of hyp.
completing(hyp, successors) ==
    SelectSeq(successors, LAMBDA h : Len(h.text) > Len(hyp.text))

\* C17 for one hypothesis: its successors are those that complete the
\* character, then the continue successor.
hedged_as_claimed(hyp, successors, continue_hyp) ==
    /\ successors = completing(hyp, successors) \o << continue_hyp >>
    /\ \E j \in 1..Len(successors) : successors[j] = continue_hyp

\* C17: on an OFF signal classified InterCharacter every hypothesis,
\* terminal or not, has among its successors one that keeps trie node,
\* text, lm_context and pending_word_len and pays the IntraCharacter cost
\* of the duration, plus 0.6 when the gap exceeds 4 unit times; its other
\* successors are those that complete the character.
C17_InterHedge ==
    (off_pending /\ classify_gap_min_cost(decoder.timing_model,
                                          signals[idx].seconds) = INTER) =>
        \A i \in 1..Len(decoder.hypotheses) :
            hedged_as_claimed(decoder.hypotheses[i],
                off_successors(decoder, decoder.hypotheses[i], signals[idx], INTER),
                hedge(decoder, decoder.hypotheses[i], signals[idx]))

\* The InterCharacter gap of [ON 0.1 s, OFF 0.3 s] has left the completed
\* "E" and, for the same terminal hypothesis, the one still on its node.
C17_Witness ==
    /\ signals = ScenarioE
    /\ pc = "finalize"
    /\ Len(decoder.hypotheses) = 2
    /\ decoder.hypotheses[1].text = <<"E">>
    /\ decoder.hypotheses[1].trie_node = ROOT
    /\ decoder.hypotheses[2].text = <<>>
    /\ get_terminal(decoder.hypotheses[2].trie_node) = "E"

\* successors holds a hypothesis with the character and a space added to hyp.
has_space_successor(hyp, ch, successors) ==
    \E j \in 1..Len(successors) : successors[j].text = hyp.text \o <<ch, " ">>

\* C18 for one hypothesis and its successors on an InterCharacter gap.
space_as_claimed(hyp, ch, successors) ==
    /\ has_space_successor(hyp, ch, successors)
          <=> (ch # NoChar /\ hyp.pending_word_len > 3)
    /\ hyp.pending_word_len <= 3 =>
          \A j \in 1..Len(successors) :
              \/ successors[j].text = hyp.text
              \/ successors[j].text = Append(hyp.text, ch)

\* C18: on an InterCharacter gap a hypothesis has a successor with the
\* character and a space added if and only if its trie node is terminal and
\* its pending_word_len (before the character is added) is above 3; with
\* pending_word_len <= 3 no successor gets a space.
C18_SpaceOnlyAfterLongWord ==
    (off_pending /\ classify_gap_min_cost(decoder.timing_model,
                                          signals[idx].seconds) = INTER) =>
        \A i \in 1..Len(decoder.hypotheses) :
            space_as_claimed(decoder.hypotheses[i],
                get_terminal(decoder.hypotheses[i].trie_node),
                off_successors(decoder, decoder.hypotheses[i], signals[idx], INTER))

\* In "STREET E" the character gap after the second E met the pending word
\* "STRE": the beam holds "STREE" and "STREE ".
C18_Witness ==
    /\ signals = round_trip_signals(long_pending_text, MorseTimingParams_default)
    /\ pc = "loop"
    /\ idx > 1
    /\ ~signals[idx - 1].on
    /\ \E i, j \in 1..Len(decoder.hypotheses) :
          /\ decoder.hypotheses[i].text = <<"S", "T", "R", "E", "E">>
          /\ decoder.hypotheses[i].pending_word_len = 5
          /\ decoder.hypotheses[j].text = <<"S", "T", "R", "E", "E", " ">>
          /\ decoder.hypotheses[j].pending_word_len = 0

\* The cost the claim gives a successor of hyp that emits ch, and a space
\* after it where spaced, on a gap of the given classification cost.
emission_cost(dec, hyp, ch, spaced, gap_cost) ==
    hyp.cost + get_cost(dec.lm, hyp.lm_context, ch) * DEFAULT_LM_WEIGHT + gap_cost
    + (IF spaced
       THEN get_cost(dec.lm, <<hyp.lm_context[2], ch>>, " ") * DEFAULT_LM_WEIGHT
            + DEFAULT_SPACE_PENALTY
       ELSE 0)

\* C19 for one hypothesis and its successors.
costs_as_claimed(dec, hyp, ch, successors, gap_cost) ==
    \A j \in 1..Len(successors) :
        /\ successors[j].text = Append(hyp.text, ch) =>
              successors[j].cost = emission_cost(dec, hyp, ch, FALSE, gap_cost)
        /\ successors[j].text = hyp.text \o <<ch, " ">> =>
              successors[j].cost = emission_cost(dec, hyp, ch, TRUE, gap_cost)

\* C19: on an OFF signal every successor that emits a character has the
\* cost of its hypothesis plus the gap's classification cost plus
\* get_cost(context before the emission, character) x 2.0; every successor
\* that also inserts a space, in the InterCharacter space branch and in the
\* Word branch alike, has in addition get_cost(updated context, ' ') x 2.0
\* plus the space-insertion penalty 0.3.
C19_EmissionCosts ==
    off_pending =>
        \A i \in 1..Len(decoder.hypotheses) :
            get_terminal(decoder.hypotheses[i].trie_node) # NoChar =>
                costs_as_claimed(decoder, decoder.hypotheses[i],
                    get_terminal(decoder.hypotheses[i].trie_node),
                    off_successors(decoder, decoder.hypotheses[i], signals[idx],
                        classify_gap_min_cost(decoder.timing_model,
                                              signals[idx].seconds)),
                    cost_of(gap_costs(decoder.timing_model, signals[idx].seconds),
                        classify_gap_min_cost(decoder.timing_model,
                                              signals[idx].seconds)))

\* A Word gap is pending on a terminal hypothesis, and the successor that
\* gets the character and the space pays the two language-model costs and
\* the gap cost, without the space-insertion penalty.
C19_WordSpaceUnpenalized ==
    /\ off_pending
    /\ signals = capped_signals
    /\ classify_gap_min_cost(decoder.timing_model, signals[idx].seconds) = WORD
    /\ \E i \in 1..Len(decoder.hypotheses) :
          /\ get_terminal(decoder.hypotheses[i].trie_node) = "I"
          /\ off_successors(decoder, decoder.hypotheses[i], signals[idx], WORD)[1].text
                = decoder.hypotheses[i].text \o <<"I", " ">>
          /\ off_successors(decoder, decoder.hypotheses[i], signals[idx], WORD)[1].cost
                = emission_cost(decoder, decoder.hypotheses[i], "I", TRUE,
                      cost_of(gap_costs(decoder.timing_model, signals[idx].seconds),
                              WORD))
                  - DEFAULT_SPACE_PENALTY

\* C20 for the hypotheses finalize starts with, what its loop makes of them
\* and the hypothesis it returns.
finalize_as_claimed(dec, hyps, completed_hyps, best) ==
    /\ Len(completed_hyps) = Len(hyps)
    /\ \A i \in 1..Len(hyps) :
          IF get_terminal(hyps[i].trie_node) # NoChar
          THEN /\ completed_hyps[i].text =
                     Append(hyps[i].text, get_terminal(hyps[i].trie_node))
               /\ completed_hyps[i].cost =
                     hyps[i].cost
                     + get_cost(dec.lm, hyps[i].lm_context,
                                get_terminal(hyps[i].trie_node)) * DEFAULT_LM_WEIGHT
          ELSE /\ completed_hyps[i].text = hyps[i].text
               /\ completed_hyps[i].cost = hyps[i].cost
    /\ hyps # <<>> =>
          /\ \E i \in 1..Len(hyps) : best = completed_hyps[i]
          /\ \A i \in 1..Len(hyps) : best.cost <= completed_hyps[i].cost

\* C20: finalize appends to every surviving hypothesis on a terminal node
\* that node's character at get_cost x 2.0, leaves the text and cost of a
\* hypothesis on a non-terminal node as they are, and returns a hypothesis
\* whose cost is least among the survivors after that; the text of the
\* result is the text of that hypothesis.
C20_Finalize ==
    /\ (pc = "finalize" /\ ~finalize_overflows(decoder)) =>
          finalize_as_claimed(decoder, decoder.hypotheses,
                              complete_remaining(decoder), finalize(decoder))
    /\ (pc = "finalize" /\ ~finalize_overflows(decoder)) =>
          result_of(decoder, result.signals_processed).text = finalize(decoder).text

\* The loop has ended inside a character with a hypothesis on a terminal
\* node and one on a node that carries no character, at different costs.
C20_Witness ==
    /\ pc = "finalize"
    /\ \E i, j \in 1..Len(decoder.hypotheses) :
          /\ get_terminal(decoder.hypotheses[i].trie_node) # NoChar
          /\ decoder.hypotheses[j].trie_node # ROOT
          /\ get_terminal(decoder.hypotheses[j].trie_node) = NoChar
          /\ complete_remaining(decoder)[i].cost # complete_remaining(decoder)[j].cost

\* C21: during the signal loop the gap thresholds of the timing model stay
\* those computed by from_signals, the unit-time estimate of the model is
\* that of the tracker, and a step on an OFF signal leaves tracker and
\* timing model as they are: only an ON signal moves ln_t.
C21_TimingFrame ==
    [][pc = "loop" =>
          /\ timings' = timings
          /\ decoder'.timing_model.gap_clusters = timings.gap_clusters
          /\ decoder'.timing_model.ln_t = decoder'.timing_tracker.ln_t
          /\ ~signals[idx].on =>
                /\ decoder'.timing_tracker = decoder.timing_tracker
                /\ decoder'.timing_model = decoder.timing_model]_vars

\* The first ON signal has moved ln_t away from the warm-up estimate and the
\* OFF signal after it has been processed with the estimate the ON left.
C21_Witness ==
    /\ pc \in {"loop", "finalize"}
    /\ idx = 3
    /\ signals[1].on
    /\ ~signals[2].on
    /\ decoder.timing_tracker # TimingTracker_new(timings.dot_duration)
    /\ decoder.timing_tracker =
          update_from_on_signal(TimingTracker_new(timings.dot_duration),
                                signals[1].seconds)
    /\ decoder.timing_model.gap_clusters = timings.gap_clusters

\* The tracker takes a duration for a dot: "ln1t_diff < ln3t_diff".
dot_like(tracker, duration) ==
    Abs(Ln(duration) - tracker.ln_t) < Abs(Ln(duration) - (tracker.ln_t + LN_3))

\* ln_t <- 0.9 ln_t + 0.1 ln(sample), ln_sample being ln(sample).
blended(ln_t, ln_sample) == MulFP(900000, ln_t) + MulFP(100000, ln_sample)

\* C22 as stated: the sample blended into ln_t is the implied unit time of
\* the losing hypothesis, the one further from the duration in log space
\* (d/3 where the duration is nearer to one unit, d where it is nearer to
\* three).
C22_LosingSample ==
    [][(pc = "loop" /\ signals[idx].on) =>
          decoder'.timing_tracker.ln_t =
              blended(decoder.timing_tracker.ln_t,
                      IF dot_like(decoder.timing_tracker, signals[idx].seconds)
                      THEN Ln(signals[idx].seconds) - LN_3
                      ELSE Ln(signals[idx].seconds))]_vars

\* C22, amended: on an ON signal of duration d the estimator compares
\* |ln d - ln_t| with |ln d - (ln_t + ln 3)| and blends into ln_t, with
\* weight alpha = 0.1, the log of the implied unit time of the hypothesis
\* that is nearer, the winning one: d where the first is smaller, d/3
\* otherwise (a tie included); ln_t <- 0.9 ln_t + 0.1 ln(sample).
C22_WinningSample ==
    [][(pc = "loop" /\ signals[idx].on) =>
          /\ decoder.timing_tracker.alpha = 100000
          /\ decoder'.timing_tracker.ln_t =
                blended(decoder.timing_tracker.ln_t,
                        IF dot_like(decoder.timing_tracker, signals[idx].seconds)
                        THEN Ln(signals[idx].seconds)
                        ELSE Ln(signals[idx].seconds) - LN_3)]_vars

\* Two updates have happened, the first on a duration taken for a dot and
\* the second on one taken for a dash, and each has moved the estimate.
C22_Witness ==
    /\ pc = "loop"
    /\ idx = 3
    /\ dot_like(TimingTracker_new(timings.dot_duration), signals[1].seconds)
    /\ ~dot_like(update_from_on_signal(TimingTracker_new(timings.dot_duration),
                                       signals[1].seconds),
                 signals[2].seconds)
    /\ decoder.timing_tracker.ln_t # Ln(timings.dot_duration)
    /\ decoder.timing_tracker.ln_t #
          update_from_on_signal(TimingTracker_new(timings.dot_duration),
                                signals[1].seconds).ln_t

\* C23: on every ON signal the element classify_element_min_cost chooses
\* under the timing model rebuilt by update_timing for that signal is the
\* one the tracker took the duration for with the estimate it had before:
\* Dot where the duration was nearer to one unit time, Dash otherwise.
C23_EstimatorAgreesWithClassifier ==
    [][(pc = "loop" /\ signals[idx].on) =>
          classify_element_min_cost(decoder'.timing_model, signals[idx].seconds)
              = IF dot_like(decoder.timing_tracker, signals[idx].seconds)
                THEN DOT ELSE DASH]_vars

\* A tone of 0.175 s after one of 0.1 s: 1.75 unit times, just above the
\* boundary sqrt(3); the tracker took it for a dash, moved the estimate
\* down towards a third of it, and the classifier chose Dash under the
\* moved estimate.
C23_Witness ==
    /\ signals = <<Sig(TRUE, 100000), Sig(TRUE, 175000)>>
    /\ pc = "finalize"
    /\ ~dot_like(update_from_on_signal(TimingTracker_new(timings.dot_duration),
                                       signals[1].seconds),
                 signals[2].seconds)
    /\ decoder.timing_model.ln_t <
          update_from_on_signal(TimingTracker_new(timings.dot_duration),
                                signals[1].seconds).ln_t
    /\ classify_element_min_cost(decoder.timing_model, signals[2].seconds) = DASH

\* The off-durations from_signals hands to cluster_gap_durations, sorted.
sorted_off_durations ==
    SortAscending(durations_of(
        SelectSeq(signals, LAMBDA s : ~s.on /\ s.seconds >= NOISE_THRESHOLD)))

\* from_signals has just returned the timings of the call.
warmed_up == pc = "loop" /\ idx = 1

\* C24: with one or two off-durations the thresholds are 0.7 times and
\* 1.5 times their median; the median of two durations is their mean.
C24_FewGapsMedian ==
    (warmed_up /\ Len(sorted_off_durations) \in {1, 2}) =>
        timings.gap_clusters =
            [intra_to_inter_threshold |->
                 (TimingStats_median(sorted_off_durations) * 7) \div 10,
             inter_to_word_threshold  |->
                 (TimingStats_median(sorted_off_durations) * 3) \div 2]

\* Two off-durations of 0.1 s and 0.3 s: the thresholds are 0.7 times and
\* 1.5 times the larger one, 0.21 s and 0.45 s, where their median 0.2 s
\* gives 0.14 s and 0.3 s.
C24_UpperOfTwo ==
    /\ warmed_up
    /\ sorted_off_durations = <<100000, 300000>>
    /\ TimingStats_median(sorted_off_durations) = 200000
    /\ timings.gap_clusters =
          [intra_to_inter_threshold |-> 210000, inter_to_word_threshold |-> 450000]

\* The two largest differences between consecutive sorted gaps, as indices
\* in ascending order, those of zero width left out.
distinct_breakpoints(sorted_gaps) ==
    SelectSeq(
        SortAscending(largest_two(
            [i \in 1..(Len(sorted_gaps) - 1) |->
                <<sorted_gaps[i + 1] - sorted_gaps[i], i>>])),
        LAMBDA i : sorted_gaps[i + 1] > sorted_gaps[i])

\* C25: with three or more off-durations the thresholds are the midpoints
\* at the two largest differences between consecutive sorted durations;
\* where fewer than two of these are distinct breakpoints (all durations
\* equal, or two distinct values only) no midpoint is taken at a
\* difference of zero width: the second threshold is 2.5 times the first.
C25_ClusterBreakpoints ==
    (warmed_up /\ Len(sorted_off_durations) >= 3) =>
        /\ timings.gap_clusters =
              thresholds_at(sorted_off_durations,
                            distinct_breakpoints(sorted_off_durations),
                            timings.dot_duration)
        /\ Len(distinct_breakpoints(sorted_off_durations)) < 2 =>
              timings.gap_clusters.inter_to_word_threshold =
                  (timings.gap_clusters.intra_to_inter_threshold * 5) \div 2

\* Off-durations 0.3 s, 0.1 s, 0.1 s: one distinct breakpoint, between 0.1 s
\* and 0.3 s.  The first threshold is the midpoint of the two equal
\* durations, 0.1 s, and the second the midpoint 0.2 s, twice the first.
C25_ZeroWidthBreakpoint ==
    /\ warmed_up
    /\ sorted_off_durations = <<100000, 100000, 300000>>
    /\ Len(distinct_breakpoints(sorted_off_durations)) = 1
    /\ timings.gap_clusters =
          [intra_to_inter_threshold |-> 100000, inter_to_word_threshold |-> 200000]

\* The class of a gap by the two thresholds alone.
threshold_class(clusters, duration) ==
    IF duration <= clusters.intra_to_inter_threshold THEN INTRA
    ELSE IF duration <= clusters.inter_to_word_threshold THEN INTER
    ELSE WORD

\* C26: for thresholds t1 <= t2 and a gap of duration d > 0 the
\* classification of least cost is IntraCharacter where d <= t1,
\* InterCharacter where t1 < d <= t2 and Word where d > t2.
C26_ThresholdPartition ==
    (/\ off_pending
     /\ signals[idx].seconds > 0
     /\ decoder.timing_model.gap_clusters.intra_to_inter_threshold
           <= decoder.timing_model.gap_clusters.inter_to_word_threshold) =>
        classify_gap_min_cost(decoder.timing_model, signals[idx].seconds)
            = threshold_class(decoder.timing_model.gap_clusters, signals[idx].seconds)

\* Thresholds 0.1 s and 0.2 s; the gap of 0.1 s inside the second character
\* equals the first threshold, was classified InterCharacter (cost 0
\* against 0.005 for IntraCharacter) and has completed a "T" there.
C26_GapAtThresholdIsInter ==
    /\ signals = partial_character_signals
    /\ pc = "loop"
    /\ idx = 5
    /\ signals[4] = Sig(FALSE, 100000)
    /\ decoder.timing_model.gap_clusters =
          [intra_to_inter_threshold |-> 100000, inter_to_word_threshold |-> 200000]
    /\ gap_costs(decoder.timing_model, 100000) =
          << <<INTRA, 5000>>, <<INTER, 0>>, <<WORD, 50000>> >>
    /\ classify_gap_min_cost(decoder.timing_model, signals[4].seconds) = INTER
    /\ \E i \in 1..Len(decoder.hypotheses) :
          decoder.hypotheses[i].text = <<"T", " ", "T">>

\* The signals with every duration multiplied by k.
scaled(sigs, k) == [i \in 1..Len(sigs) |-> Sig(sigs[i].on, sigs[i].seconds * k)]

SpeedFactors == {2, 3}

\* C27: multiplying every duration of the input by a factor k > 0 that
\* keeps all durations at or above the noise floor of 0.01 s leaves the
\* decoded text as it is.
C27_SpeedIndependence ==
    (/\ pc = "done"
     /\ result.ok
     /\ \A i \in 1..Len(signals) : signals[i].seconds >= NOISE_THRESHOLD) =>
        \A k \in SpeedFactors :
            morse_interpret(scaled(signals, k), max_output_length, lm).text
                = result.text

\* The dot of 0.1 s and its gap are decoded as "E"; three times slower, a
\* tone of 0.3 s and a gap of 0.9 s, they are decoded as "T".
C27_SlowDotIsDash ==
    /\ pc = "done"
    /\ signals = ScenarioE
    /\ max_output_length = DefaultMaxOutputLength
    /\ result.text = <<"E">>
    /\ morse_interpret(scaled(signals, 3), max_output_length, lm).text = <<"T">>

\* The last two characters of two spaces followed by the text.
padded_context(text) ==
    << IF Len(text) >= 2 THEN text[Len(text) - 1] ELSE " ",
       IF Len(text) >= 1 THEN text[Len(text)] ELSE " " >>

\* Every successor of hyp on the pending OFF signal that has emitted a
\* character stands at ROOT.
emission_resets_node(dec, hyp, signal) ==
    \A s \in SeqRange(off_successors(dec, hyp, signal,
                          classify_gap_min_cost(dec.timing_model, signal.seconds))) :
        Len(s.text) > Len(hyp.text) => s.trie_node = ROOT

\* C28: every hypothesis of the beam has as lm_context the last two
\* characters of its text behind two pad spaces and as pending_word_len the
\* number of characters of its text after the last space, and a hypothesis
\* that has just had a character emitted stands at ROOT.
C28_Bookkeeping ==
    \A i \in 1..Len(decoder.hypotheses) :
        /\ decoder.hypotheses[i].lm_context = padded_context(decoder.hypotheses[i].text)
        /\ counts_pending_word(decoder.hypotheses[i])
        /\ off_pending =>
              emission_resets_node(decoder, decoder.hypotheses[i], signals[idx])

\* A hypothesis whose text is one word of 65536 characters and whose
\* pending_word_len has wrapped to 0.
C28_WrappedWordLength ==
    /\ ~overflow_checks
    /\ \E i \in 1..Len(decoder.hypotheses) :
          /\ Len(decoder.hypotheses[i].text) = U16_MAX + 1
          /\ \A j \in 1..Len(decoder.hypotheses[i].text) :
                decoder.hypotheses[i].text[j] # " "
          /\ decoder.hypotheses[i].pending_word_len = 0
          /\ decoder.hypotheses[i].trie_node = ROOT

\* The text does not start with a space and has no two spaces in a row.
well_spaced(text) ==
    /\ text # <<>> => text[1] # " "
    /\ \A j \in 1..(Len(text) - 1) : ~(text[j] = " " /\ text[j + 1] = " ")

\* A successor of hyp on an OFF signal has the text of hyp, or that text
\* with the character ch of the node of hyp, or with ch and a space.
appends_as_claimed(hyp, ch, successors) ==
    \A j \in 1..Len(successors) :
        \/ successors[j].text = hyp.text
        \/ /\ ch \notin {NoChar, " "}
           /\ \/ successors[j].text = Append(hyp.text, ch)
              \/ successors[j].text = hyp.text \o <<ch, " ">>

\* C29: no text of a hypothesis and no text returned starts with a space or
\* has two spaces in a row, whatever the signals (leading gaps and
\* consecutive OFF signals included); a space is appended only together
\* with the character completed before it in the same step.
C29_NoLeadingOrDoubleSpace ==
    /\ \A i \in 1..Len(decoder.hypotheses) : well_spaced(decoder.hypotheses[i].text)
    /\ well_spaced(result.text)
    /\ off_pending =>
          \A i \in 1..Len(decoder.hypotheses) :
              appends_as_claimed(decoder.hypotheses[i],
                  get_terminal(decoder.hypotheses[i].trie_node),
                  off_successors(decoder, decoder.hypotheses[i], signals[idx],
                      classify_gap_min_cost(decoder.timing_model,
                                            signals[idx].seconds)))

\* The Word gap after the first dash has completed "T" and added the space
\* behind it in the same step.
C29_Witness ==
    /\ signals = partial_character_signals
    /\ pc = "loop"
    /\ idx = 3
    /\ classify_gap_min_cost(decoder.timing_model, signals[2].seconds) = WORD
    /\ Len(decoder.hypotheses) = 1
    /\ decoder.hypotheses[1].text = <<"T", " ">>

\* A tone of the element list: a Dot or a Dash.
is_tone(element) == element.element_type \in {DOT, DASH}

\* The structure of one element list at dot length dot and word gap
\* word_gap: tone durations, and what lies between two consecutive tones.
structured(elements, dot, word_gap) ==
    /\ \A i \in 1..Len(elements) :
         /\ elements[i].element_type = DOT => elements[i].duration_seconds = dot
         /\ elements[i].element_type = DASH
                => elements[i].duration_seconds = DOTS_PER_DASH * dot
    /\ \A i \in 1..Len(elements) :
         (is_tone(elements[i]) /\ \E j \in (i + 1)..Len(elements) : is_tone(elements[j]))
            => /\ elements[i + 1].element_type = GAP
               /\ is_tone(elements[i + 2])
               /\ elements[i + 1].duration_seconds
                      \in {dot, DOTS_PER_CHAR_GAP * dot, word_gap}

\* C30: with zero humanization a dot lasts 1.2/wpm seconds, a dash three
\* dots, and every two consecutive tones of the generated list are separated
\* by exactly one Gap: of one dot within a character, three dots between
\* characters, or the word gap 7 * word_gap_multiplier dots between words;
\* for any text, bracketed prosigns mixed with regular characters included.
C30_GeneratorStructure ==
    (generator.pc = "returned" /\ generator.params.humanization_factor = 0)
        => LET dot == 1200000 \div generator.params.wpm
           IN  structured(generator.elements, dot,
                          MulFP(dot * DOTS_PER_WORD_GAP,
                                generator.params.word_gap_multiplier))

\* A regular character followed by a prosign: the prosign's first tone
\* follows the character's last tone with no Gap between them.
C30_ToneFollowsTone ==
    /\ generator.pc = "returned"
    /\ generator.text = <<"E", "[", "N", "]">>
    /\ Len(generator.elements) >= 2
    /\ is_tone(generator.elements[1])
    /\ is_tone(generator.elements[2])

\* Texts of regular characters and single spaces.
plain_text(text) ==
    /\ \A i \in 1..Len(text) : text[i] \notin {"[", "]"}
    /\ \A i \in 1..(Len(text) - 1) : ~(text[i] = " " /\ text[i + 1] = " ")

\* Without prosigns and repeated spaces the list has the structure.
PlainTextStructure ==
    (generator.pc = "returned" /\ plain_text(generator.text))
        => LET dot == 1200000 \div generator.params.wpm
           IN  structured(generator.elements, dot,
                          MulFP(dot * DOTS_PER_WORD_GAP,
                                generator.params.word_gap_multiplier))

====
